---- MODULE Spec2Model ----
(***************************************************************************)
(* A model of nomad-events: the route tree (internal/routing), the config  *)
(* validation (internal/config), the ServiceManager with its dispatcher    *)
(* and reload (cmd/nomad-events/main.go), and the reconnecting ingest      *)
(* client (internal/nomad).                                                *)
(***************************************************************************)
EXTENDS Integers, Sequences, FiniteSets, TLC

VARIABLES
    \* ---- config loading / routing (LoadConfig, NewRouter, Router.Route)
    cfg,        \* the configuration file's content as unmarshalled
    loadErr,    \* LoadConfig's error ("nil" when it returned a Config)
    router,     \* the Router NewRouter returned: [routes |-> <<routeNode>>]
    routeEv,    \* the event handed to Router.Route
    routed,     \* Router.Route's return value: [outputs, err]
    rpc,        \* position: "cfg", "loaded", "rejected", "compiled", "compileErr", "routed"
    \* ---- ServiceManager, signal loop and dispatcher (cmd/nomad-events/main.go)
    smRouter,         \* sm.router: the live router pointer
    smOutputManager,  \* sm.outputManager: the live output-manager pointer
    installed,        \* history: the <<router, manager>> pairs reloadConfig installed
    sig,              \* the signal loop and the reloadConfig call it makes
    reloads,          \* the number of SIGHUPs received
    eventChan,        \* the buffered event channel
    produced,         \* the number of events put on the channel
    chanClosed,       \* close(eventChan) was called
    ctxDone,          \* the root context is cancelled
    disp,             \* the processEvents goroutine: its position and locals
    calls,            \* the serviceManager.Send calls in progress
    nextCall,         \* the id of the next Send call
    log,              \* history: the Route and Send calls and their returns
    \* ---- the ingest client (internal/nomad EventStream) and its upstream
    es,               \* the EventStream's fields and the position of Stream
    up,               \* the upstream stream: its state and the frames in flight
    \* ---- the Slack sink (internal/outputs SlackOutput) and its webhook
    slack,            \* one SlackOutput.Send call: its configuration, event and result
    \* ---- the template engines (internal/template Engine, SlackTemplateEngine)
    tmpl,             \* one Engine.processText call: its text, data and result
    rng               \* one call of a list processor of the block engine

routeVars == <<cfg, loadErr, router, routeEv, routed, rpc>>

svcVars == <<smRouter, smOutputManager, installed, sig, reloads, eventChan,
             produced, chanClosed, ctxDone, disp, calls, nextCall, log>>

ingestVars == <<es, up>>

sinkVars == <<slack, tmpl, rng>>

vars == <<cfg, loadErr, router, routeEv, routed, rpc,
          smRouter, smOutputManager, installed, sig, reloads, eventChan,
          produced, chanClosed, ctxDone, disp, calls, nextCall, log, es, up, slack,
          tmpl, rng>>

----------------------------------------------------------------------------
\* Bounds of the model.

\* the largest number of route nodes of an enumerated route tree
MaxNodes == 3
\* the number of events the ingest side delivers
MaxEvents == 2
\* the number of SIGHUPs the process receives
MaxReloads == 1
\* the highest index of an upstream event
MaxIndex == 2
\* the number of frames the upstream stream holds undelivered
MaxFrames == 1
\* the largest max_retries of a retry wrapper
MaxAttempts == 3
\* the number of Sends made in a row to a sink registry
MaxSends == 2
\* the number of handshakes the upstream refuses
MaxFails == 1
\* the number of handshakes the upstream accepts
MaxConnects == 1
\* the capacity of the event channel (100 in main.go; the model's is smaller,
\* to reach the full channel)
ChanCap == 1

\* the largest number of block descriptors of an enumerated slack output
MaxBlocks == 2
\* the number of handshakes the upstream refuses in the backoff specification
\* (above maxRetries, so that an inner retry run is exhausted)
MaxRefusals == 11
\* the largest number of pieces of an enumerated template string
MaxPieces == 3
\* the largest number of descriptors of an enumerated list (fields, elements,
\* options, blocks)
MaxItems == 2
\* the largest length of the list a range path resolves to
MaxList == 2

----------------------------------------------------------------------------
\* Events (nomad.Event) and the CEL filters of the model.

NoDiff == "nil"

EvNodeReg ==
    [Topic |-> "Node", Type |-> "NodeRegistration", Index |-> 1,
     PayloadKey |-> "Node", PayloadID |-> "node-1", Version |-> 0, Diff |-> NoDiff]
EvJobReg ==
    [Topic |-> "Job", Type |-> "JobRegistered", Index |-> 2,
     PayloadKey |-> "Job", PayloadID |-> "web", Version |-> 1, Diff |-> NoDiff]
EvJobDereg ==
    [Topic |-> "Job", Type |-> "JobDeregistered", Index |-> 3,
     PayloadKey |-> "Job", PayloadID |-> "api", Version |-> 2, Diff |-> NoDiff]

NoEvent ==
    [Topic |-> "", Type |-> "", Index |-> 0,
     PayloadKey |-> "", PayloadID |-> "", Version |-> 0, Diff |-> NoDiff]

RouteEvents == {EvNodeReg, EvJobReg, EvJobDereg}

\* filter sources (config.Route.Filter)
FEmpty == ""
FJob == "event.Topic == 'Job'"
FNode == "event.Topic == 'Node'"
FJobReg == "event.Type == 'JobRegistered'"
FNodeReg == "event.Type == 'NodeRegistration'"
FJobWeb == "event.Payload.Job.ID == 'web'"
FTopic == "event.Topic"
FBroken == "event.Topic =="

\* env.Compile: the source NewRouter compiles for a filter ("" compiles "true"),
\* and whether CEL accepts it.
CompileSource(filter) == IF filter = "" THEN "true" ELSE filter
CompileOK(filter) == CompileSource(filter) # FBroken

\* Router.Route's evaluation context: the event map and the diff alias.
EvalContext(event) ==
    [event |-> [Topic |-> event.Topic, Type |-> event.Type, Index |-> event.Index,
                PayloadKey |-> event.PayloadKey, PayloadID |-> event.PayloadID,
                Diff |-> event.Diff],
     diff |-> event.Diff]

\* cel.Program.Eval of a compiled filter: [val, err]. val is "True", "False" or
\* another CEL value; err is TRUE when evaluation raised (no such key).
Eval(program, ctx) ==
    LET e == ctx.event IN
    CASE program = "true"    -> [val |-> "True", err |-> FALSE]
      [] program = FJob      -> [val |-> IF e.Topic = "Job" THEN "True" ELSE "False", err |-> FALSE]
      [] program = FNode     -> [val |-> IF e.Topic = "Node" THEN "True" ELSE "False", err |-> FALSE]
      [] program = FJobReg   -> [val |-> IF e.Type = "JobRegistered" THEN "True" ELSE "False", err |-> FALSE]
      [] program = FNodeReg  -> [val |-> IF e.Type = "NodeRegistration" THEN "True" ELSE "False", err |-> FALSE]
      [] program = FJobWeb   -> IF e.PayloadKey # "Job"
                                THEN [val |-> "Error", err |-> TRUE]
                                ELSE [val |-> IF e.PayloadID = "web" THEN "True" ELSE "False", err |-> FALSE]
      [] program = FTopic    -> [val |-> "String", err |-> FALSE]
      [] OTHER               -> [val |-> "Error", err |-> TRUE]

----------------------------------------------------------------------------
\* config.Route trees.

ContinueNil == "nil"
ContinueTrue == "true"
ContinueFalse == "false"

Route(filter, output, continue, routes) ==
    [Filter |-> filter, Output |-> output, Continue |-> continue, Routes |-> routes]

\* the example of TestEventRoutingIntegration
IntegrationRoutes ==
    << Route(FNode, "node_events", ContinueNil,
             << Route(FNodeReg, "job_events", ContinueNil, <<>>) >>),
       Route(FJob, "", ContinueFalse,
             << Route(FJobReg, "job_events", ContinueNil, <<>>) >>),
       Route(FEmpty, "all_events", ContinueNil, <<>>) >>

\* the example of TestRouterRouteNonExistentField, with the failing filter also
\* on a nested route and a filter that yields a string
ErrorRoutes ==
    << Route(FNode, "", ContinueTrue,
             << Route(FJobWeb, "a", ContinueFalse, << Route(FEmpty, "b", ContinueNil, <<>>) >>),
                Route(FEmpty, "b", ContinueNil, <<>>) >>),
       Route(FJobWeb, "a", ContinueFalse, <<>>),
       Route(FTopic, "a", ContinueFalse, <<>>),
       Route(FEmpty, "all_events", ContinueTrue, <<>>) >>

\* the attributes of the route nodes written into enumerated route trees
EnumFilters == {FJob, FJobWeb}
EnumOutputs == {"a", "b"}
EnumContinue == {ContinueNil, ContinueFalse}

RECURSIVE CountNodes(_)
CountNodes(routes) ==
    IF routes = <<>> THEN 0
    ELSE 1 + CountNodes(Head(routes).Routes) + CountNodes(Tail(routes))

\* the nesting depth of the last route written
RECURSIVE SpineDepth(_)
SpineDepth(routes) ==
    IF routes = <<>> THEN 0 ELSE 1 + SpineDepth(routes[Len(routes)].Routes)

\* the routes list with one more route written after the last one, at depth d
RECURSIVE AppendAtDepth(_, _, _)
AppendAtDepth(routes, d, node) ==
    IF d = 1 THEN Append(routes, node)
    ELSE [routes EXCEPT ![Len(routes)].Routes = AppendAtDepth(@, d - 1, node)]

----------------------------------------------------------------------------
\* internal/routing: NewRouter / buildRouteNodes.

RECURSIVE AllCompile(_)
AllCompile(routes) ==
    \A i \in 1..Len(routes) :
        CompileOK(routes[i].Filter) /\ AllCompile(routes[i].Routes)

RECURSIVE buildRouteNodes(_)
buildRouteNodes(routes) ==
    [ i \in 1..Len(routes) |->
        [filter         |-> CompileSource(routes[i].Filter),
         output         |-> routes[i].Output,
         shouldContinue |-> IF routes[i].Continue # ContinueNil
                            THEN routes[i].Continue = ContinueTrue ELSE TRUE,
         children       |-> buildRouteNodes(routes[i].Routes)] ]

NoRouter == [gen |-> 0, routes |-> <<>>]

\* NewRouter: [router, err]
NewRouter(routes) ==
    IF AllCompile(routes)
    THEN [router |-> [gen |-> 0, routes |-> buildRouteNodes(routes)], err |-> "nil"]
    ELSE [router |-> NoRouter, err |-> "failed to compile filter"]

----------------------------------------------------------------------------
\* internal/routing: Router.Route / processRoutes.

\* the loop of processRoutes from sibling i on, with the outputs matched so far
RECURSIVE processRoutesFrom(_, _, _, _)
RECURSIVE processRoutes(_, _)

\* processRoutes with the children's outputs appended before the route's own
processRoutesPostOrder(routes, i, evalContext, matchedOutputs) ==
    IF i > Len(routes) THEN [outputs |-> matchedOutputs, err |-> "nil"]
    ELSE
      LET route == routes[i]
          res   == Eval(route.filter, evalContext)
      IN
      IF ~res.err /\ res.val = "True" THEN
        LET child == processRoutes(route.children, evalContext).outputs
            own   == IF route.output # "" THEN <<route.output>> ELSE <<>>
            all   == matchedOutputs \o child \o own
        IN IF ~route.shouldContinue THEN [outputs |-> all, err |-> "nil"]
           ELSE processRoutesFrom(routes, i + 1, evalContext, all)
      ELSE processRoutesFrom(routes, i + 1, evalContext, matchedOutputs)

\* processRoutes without the break on shouldContinue = false
processRoutesNoBreak(routes, i, evalContext, matchedOutputs) ==
    IF i > Len(routes) THEN [outputs |-> matchedOutputs, err |-> "nil"]
    ELSE
      LET route == routes[i]
          res   == Eval(route.filter, evalContext)
      IN
      IF ~res.err /\ res.val = "True" THEN
        LET child == processRoutes(route.children, evalContext).outputs
            own   == IF route.output # "" THEN <<route.output>> ELSE <<>>
        IN processRoutesFrom(routes, i + 1, evalContext, matchedOutputs \o own \o child)
      ELSE processRoutesFrom(routes, i + 1, evalContext, matchedOutputs)

\* processRoutes returning the evaluation error instead of skipping the route
processRoutesFailFast(routes, i, evalContext, matchedOutputs) ==
    IF i > Len(routes) THEN [outputs |-> matchedOutputs, err |-> "nil"]
    ELSE
      LET route == routes[i]
          res   == Eval(route.filter, evalContext)
      IN
      IF res.err THEN [outputs |-> <<>>, err |-> "failed to evaluate filter"]
      ELSE IF res.val = "True" THEN
        LET child == processRoutes(route.children, evalContext)
            own   == IF route.output # "" THEN <<route.output>> ELSE <<>>
        IN IF child.err # "nil" THEN child
           ELSE IF ~route.shouldContinue
                THEN [outputs |-> matchedOutputs \o own \o child.outputs, err |-> "nil"]
                ELSE processRoutesFrom(routes, i + 1, evalContext,
                                       matchedOutputs \o own \o child.outputs)
      ELSE processRoutesFrom(routes, i + 1, evalContext, matchedOutputs)

\* processRoutes in which a child that matched with shouldContinue = false
\* also ends the loop over its parent's siblings
processRoutesChildStopPropagates(routes, i, evalContext, matchedOutputs) ==
    IF i > Len(routes) THEN [outputs |-> matchedOutputs, err |-> "nil"]
    ELSE
      LET route == routes[i]
          res   == Eval(route.filter, evalContext)
      IN
      IF res.err THEN processRoutesFrom(routes, i + 1, evalContext, matchedOutputs)
      ELSE IF res.val = "True" THEN
        LET withOwn == IF route.output # "" THEN Append(matchedOutputs, route.output)
                       ELSE matchedOutputs
            child   == IF Len(route.children) > 0
                       THEN processRoutes(route.children, evalContext)
                       ELSE [outputs |-> <<>>, err |-> "nil"]
            childStopped ==
                \E k \in 1..Len(route.children) :
                   LET c == Eval(route.children[k].filter, evalContext) IN
                     ~c.err /\ c.val = "True" /\ ~route.children[k].shouldContinue
        IN
        IF ~route.shouldContinue \/ childStopped
        THEN [outputs |-> withOwn \o child.outputs, err |-> "nil"]
        ELSE processRoutesFrom(routes, i + 1, evalContext, withOwn \o child.outputs)
      ELSE processRoutesFrom(routes, i + 1, evalContext, matchedOutputs)

\* processRoutes with an evaluation error counted as a match
RECURSIVE processRoutesErrorMatches(_, _, _, _)
processRoutesErrorMatches(routes, i, evalContext, matchedOutputs) ==
    IF i > Len(routes) THEN [outputs |-> matchedOutputs, err |-> "nil"]
    ELSE
      LET route == routes[i]
          res   == Eval(route.filter, evalContext)
      IN
      IF res.err \/ res.val = "True" THEN
        LET withOwn == IF route.output # "" THEN Append(matchedOutputs, route.output)
                       ELSE matchedOutputs
            child   == IF Len(route.children) > 0
                       THEN processRoutesErrorMatches(route.children, 1, evalContext, <<>>)
                       ELSE [outputs |-> <<>>, err |-> "nil"]
        IN
        IF ~route.shouldContinue
        THEN [outputs |-> withOwn \o child.outputs, err |-> "nil"]
        ELSE processRoutesErrorMatches(routes, i + 1, evalContext, withOwn \o child.outputs)
      ELSE processRoutesErrorMatches(routes, i + 1, evalContext, matchedOutputs)

\* processRoutes with a continue=false route ending the list matched or not
RECURSIVE processRoutesStopsUnmatched(_, _, _, _)
processRoutesStopsUnmatched(routes, i, evalContext, matchedOutputs) ==
    IF i > Len(routes) THEN [outputs |-> matchedOutputs, err |-> "nil"]
    ELSE
      LET route == routes[i]
          res   == Eval(route.filter, evalContext)
      IN
      IF res.err \/ res.val # "True" THEN
        IF ~route.shouldContinue
        THEN [outputs |-> matchedOutputs, err |-> "nil"]
        ELSE processRoutesStopsUnmatched(routes, i + 1, evalContext, matchedOutputs)
      ELSE
        LET withOwn == IF route.output # "" THEN Append(matchedOutputs, route.output)
                       ELSE matchedOutputs
            child   == IF Len(route.children) > 0
                       THEN processRoutesStopsUnmatched(route.children, 1, evalContext, <<>>)
                       ELSE [outputs |-> <<>>, err |-> "nil"]
        IN
        IF ~route.shouldContinue
        THEN [outputs |-> withOwn \o child.outputs, err |-> "nil"]
        ELSE processRoutesStopsUnmatched(routes, i + 1, evalContext, withOwn \o child.outputs)

processRoutesFrom(routes, i, evalContext, matchedOutputs) ==
    IF i > Len(routes) THEN [outputs |-> matchedOutputs, err |-> "nil"]
    ELSE
      LET route == routes[i]
          res   == Eval(route.filter, evalContext)
      IN
      IF res.err THEN processRoutesFrom(routes, i + 1, evalContext, matchedOutputs)
      ELSE IF res.val = "True" THEN
        LET withOwn == IF route.output # "" THEN Append(matchedOutputs, route.output)
                       ELSE matchedOutputs
            child   == IF Len(route.children) > 0
                       THEN processRoutes(route.children, evalContext)
                       ELSE [outputs |-> <<>>, err |-> "nil"]
        IN
        IF child.err # "nil"
        THEN processRoutesFrom(routes, i + 1, evalContext, withOwn)
        ELSE IF ~route.shouldContinue
             THEN [outputs |-> withOwn \o child.outputs, err |-> "nil"]
             ELSE processRoutesFrom(routes, i + 1, evalContext, withOwn \o child.outputs)
      ELSE processRoutesFrom(routes, i + 1, evalContext, matchedOutputs)

processRoutes(routes, evalContext) == processRoutesFrom(routes, 1, evalContext, <<>>)

RouterRoute(r, event) == processRoutes(r.routes, EvalContext(event))

----------------------------------------------------------------------------
\* internal/config: the outputs section.

\* config.Output: the type and the optional retry section
OutputCfg(type, hasRetry, maxRetries, baseDelay) ==
    [Type |-> type, HasRetry |-> hasRetry, MaxRetries |-> maxRetries, BaseDelay |-> baseDelay]
StdoutOut == OutputCfg("stdout", FALSE, 0, "")

----------------------------------------------------------------------------
\* internal/config: LoadConfig / Config.validate / Config.validateRoute.

FLong == "<a filter of 1001 characters>"
FilterLen(filter) == IF filter = FLong THEN 1001 ELSE 40
MaxFilterLen == 1000

\* validateRoute without the descent into the child routes
validateRouteShallow(c, route) ==
    IF route.Output = "" /\ Len(route.Routes) = 0
    THEN "route must have either an output or child routes"
    ELSE IF route.Output # "" /\ route.Output \notin DOMAIN c.Outputs
    THEN "output does not exist"
    ELSE "nil"

RECURSIVE validateRoute(_, _)
RECURSIVE validateRoutes(_, _, _)

\* the first error of routes[i..], or "nil"
validateRoutes(c, routes, i) ==
    IF i > Len(routes) THEN "nil"
    ELSE LET err == validateRoute(c, routes[i]) IN
         IF err # "nil" THEN err ELSE validateRoutes(c, routes, i + 1)

\* validateRoute descending only below a route that has no output of its own
validateRouteSkipsChildrenOfSinks(c, route) ==
    IF route.Output = "" /\ Len(route.Routes) = 0
    THEN "route must have either an output or child routes"
    ELSE IF route.Output # "" /\ route.Output \notin DOMAIN c.Outputs
    THEN "output does not exist"
    ELSE IF route.Filter # "" /\ FilterLen(route.Filter) > MaxFilterLen
    THEN "filter expression is too long"
    ELSE IF route.Output # "" THEN "nil"
    ELSE validateRoutes(c, route.Routes, 1)

validateRoute(c, route) ==
    IF route.Output = "" /\ Len(route.Routes) = 0
    THEN "route must have either an output or child routes"
    ELSE IF route.Output # "" /\ route.Output \notin DOMAIN c.Outputs
    THEN "output does not exist"
    ELSE IF route.Filter # "" /\ FilterLen(route.Filter) > MaxFilterLen
    THEN "filter expression is too long"
    ELSE validateRoutes(c, route.Routes, 1)

validate(c) ==
    IF c.Address = "" THEN "nomad.address is required"
    ELSE IF DOMAIN c.Outputs = {} THEN "at least one output must be defined"
    ELSE IF \E n \in DOMAIN c.Outputs : c.Outputs[n].Type = "" THEN "type is required"
    ELSE IF Len(c.Routes) = 0 THEN "at least one route must be defined"
    ELSE validateRoutes(c, c.Routes, 1)

\* LoadConfig's error for a configuration file ("nil": a Config is returned)
LoadConfig(file) ==
    IF file.File = "unreadable" THEN "failed to read config file"
    ELSE IF file.File = "malformed" THEN "failed to parse config file"
    ELSE IF validate(file) # "nil" THEN "invalid configuration"
    ELSE "nil"

----------------------------------------------------------------------------
\* internal/outputs: NewManager / createOutput / NewRetryOutput.

SupportedTypes == {"stdout", "slack", "http", "rabbitmq", "exec"}
ParseDurationOK(s) == s \in {"1s", "500ms", "0s"}
\* time.ParseDuration of a well-formed base_delay, in milliseconds
ParseDuration(s) == IF s = "1s" THEN 1000 ELSE IF s = "500ms" THEN 500 ELSE 0
DefaultMaxRetries == 3
\* 1 * time.Second, in milliseconds
DefaultBaseDelay == 1000

\* createOutput's error for one output section
createOutputErr(o) ==
    IF o.Type \notin SupportedTypes THEN "unsupported output type"
    ELSE IF o.HasRetry /\ o.BaseDelay # "" /\ ~ParseDurationOK(o.BaseDelay)
    THEN "invalid base_delay format"
    ELSE "nil"

\* the Output createOutput returns: the base sink, wrapped in a RetryOutput
\* when a retry section is configured (NewRetryOutput's default for 0)
createOutput(o) ==
    [retry      |-> o.HasRetry,
     maxRetries |-> IF o.HasRetry /\ o.MaxRetries = 0 THEN DefaultMaxRetries
                    ELSE o.MaxRetries,
     baseDelay  |-> IF ~o.HasRetry THEN 0
                    ELSE IF ParseDuration(o.BaseDelay) = 0 THEN DefaultBaseDelay
                    ELSE ParseDuration(o.BaseDelay)]

NoManager == [gen |-> 0, outputs |-> <<>>]

\* NewManager: [outputs, err]
NewManager(outputConfigs) ==
    IF \E n \in DOMAIN outputConfigs : createOutputErr(outputConfigs[n]) # "nil"
    THEN [outputs |-> <<>>, err |-> "failed to create output"]
    ELSE [outputs |-> [n \in DOMAIN outputConfigs |-> createOutput(outputConfigs[n])],
          err |-> "nil"]

----------------------------------------------------------------------------
\* The configuration files the running service reads.

Address == "http://localhost:4646"

ConfigFile(file, outputs, routes) ==
    [File |-> file, Address |-> Address, Outputs |-> outputs, Routes |-> routes]

FileA ==
    ConfigFile("ok",
        [n \in {"a", "b"} |-> IF n = "a" THEN OutputCfg("stdout", TRUE, 2, "1s")
                              ELSE StdoutOut],
        << Route(FJob, "a", ContinueNil, <<>>),
           Route(FEmpty, "b", ContinueNil, <<>>) >>)
FileB ==
    ConfigFile("ok",
        [n \in {"b", "c"} |-> IF n = "c" THEN OutputCfg("stdout", TRUE, -1, "")
                              ELSE StdoutOut],
        << Route(FEmpty, "c", ContinueNil,
                 << Route(FJob, "b", ContinueNil, <<>>) >>) >>)
FileGhostOutput ==
    ConfigFile("ok", [n \in {"c"} |-> StdoutOut],
        << Route(FEmpty, "ghost", ContinueNil, <<>>) >>)
FileBrokenFilter ==
    ConfigFile("ok", [n \in {"c"} |-> StdoutOut],
        << Route(FBroken, "c", ContinueNil, <<>>) >>)
FileBadType ==
    ConfigFile("ok", [n \in {"c"} |-> OutputCfg("kafka", FALSE, 0, "")],
        << Route(FEmpty, "c", ContinueNil, <<>>) >>)
FileBadDelay ==
    ConfigFile("ok", [n \in {"c"} |-> OutputCfg("stdout", TRUE, 0, "soon")],
        << Route(FEmpty, "c", ContinueNil, <<>>) >>)

ServiceFiles ==
    {FileB, FileGhostOutput, FileBrokenFilter, FileBadType, FileBadDelay}

ServiceEvents == {EvNodeReg, EvJobReg}

----------------------------------------------------------------------------
\* internal/nomad: EventStream (Stream, streamWithRetry, connectAndStream).

Second == 1
Minute == 60
maxRetries == 10

\* exponentialBackoff without the cap
exponentialBackoffNoCap(retryBackoff) ==
    retryBackoff * 2

\* EventStream.exponentialBackoff
exponentialBackoff(retryBackoff) ==
    IF retryBackoff * 2 > Minute THEN Minute ELSE retryBackoff * 2

\* NewEventStream, before Stream is called
\* (received, sent and diffCalls are history: the upstream events taken from
\* the stream, the events placed on the channel, and the upstream events the
\* job-versions side-call was made for)
NewEventStream ==
    [pc |-> "stream", lastIndex |-> 0, retryBackoff |-> Second, retries |-> 0,
     batch |-> <<>>, recv |-> "none", startIndex |-> 0,
     nomadEvent |-> NoEvent, sideCall |-> "none",
     received |-> <<>>, sent |-> <<>>, diffCalls |-> <<>>]

\* (opens and fails count the handshakes the upstream has accepted and refused)
NoUpstream == [state |-> "none", frames |-> <<>>, next |-> 1, opens |-> 0, fails |-> 0]

\* the upstream's frames (api.Events): a batch of events, or an error
BatchFrame(events) == [err |-> FALSE, events |-> events]
ErrorFrame == [err |-> TRUE, events |-> <<>>]

UpstreamEvent(kind, index) == [kind EXCEPT !.Index = index]

\* the kinds of events the upstream sends: a Node event, Job/JobRegistered
\* with Version 1, with Version 2, with Version 2 but no Job.ID, and
\* Job/JobDeregistered with Version 2
EvJobRegV2 == [EvJobReg EXCEPT !.Version = 2]
EvJobRegNoID == [EvJobReg EXCEPT !.Version = 2, !.PayloadID = ""]
UpstreamKinds == {EvNodeReg, EvJobReg, EvJobRegV2, EvJobRegNoID, EvJobDereg}
\* the kinds sent where the reconnects and the shutdown are part of the
\* specification: one that is enriched and one that is not
StreamKinds == {EvNodeReg, EvJobRegV2}

\* connectAndStream's conditions for fetching the job diff
NeedsDiffAnyVersion(event) ==
    /\ event.Topic = "Job" /\ event.Type = "JobRegistered"
    /\ event.PayloadKey = "Job"
    /\ event.PayloadID # ""

NeedsDiff(event) ==
    /\ event.Topic = "Job" /\ event.Type = "JobRegistered"
    /\ event.PayloadKey = "Job"
    /\ event.PayloadID # ""
    /\ event.Version > 1

\* fetchJobDiff's outcomes: the diff, or one of its errors
FetchResults == {"diff", "failed to get job versions", "no job diffs available"}

\* the ingest variables when the ingest client is not part of the specification
IngestIdle ==
    /\ es = NewEventStream
    /\ up = NoUpstream

----------------------------------------------------------------------------
\* internal/outputs/slack.go and the block template engine: SlackOutput.

\* a block descriptor of the configuration's blocks list.  Text is the kind of
\* its text property: "string" (a template string), "map" (a text object),
\* "number" (neither) or "nil" (absent).  Elements are its element
\* configurations: "text" (a string), "button" (a map of type button) or
\* "malformed" (neither a string nor a map).
BlockConfig(type, text, elements) ==
    [Type |-> type, Text |-> text, Elements |-> elements]

\* a block the engine built: its type and the number of elements it kept
Block(type, elements) ==
    [block |-> [Type |-> type, Elements |-> elements], err |-> "nil"]

BlockErr(err) ==
    [block |-> [Type |-> "", Elements |-> 0], err |-> err]

\* processSingleContextElement: parseTextConfig accepts a string or a map
ContextElementOK(elem) ==
    elem \in {"text", "button"}

\* processElement: the element is a map whose type is button or static_select
ActionElementOK(elem) ==
    elem = "button"

RECURSIVE CountKept(_, _)
CountKept(elements, ok) ==
    IF elements = <<>> THEN 0
    ELSE (IF Head(elements) \in ok THEN 1 ELSE 0) + CountKept(Tail(elements), ok)

\* processBlock: the block of one descriptor, or the error of its builder.
\* The context and actions builders drop an element whose processing fails.
processBlock(blockConfig) ==
    CASE blockConfig.Type = "header" ->
           IF blockConfig.Text = "string"
           THEN Block("header", 0)
           ELSE BlockErr("text must be a string")
      [] blockConfig.Type = "divider" -> Block("divider", 0)
      [] blockConfig.Type = "section" ->
           IF blockConfig.Text = "number"
           THEN BlockErr("invalid text configuration")
           ELSE Block("section", 0)
      [] blockConfig.Type = "context" ->
           Block("context",
                 CountKept(blockConfig.Elements, {e \in {"text", "button", "malformed"} : ContextElementOK(e)}))
      [] blockConfig.Type = "actions" ->
           Block("actions",
                 CountKept(blockConfig.Elements, {e \in {"text", "button", "malformed"} : ActionElementOK(e)}))
      [] blockConfig.Type = "image" -> Block("image", 0)
      [] blockConfig.Type = "input" -> BlockErr("input blocks not implemented yet")
      [] OTHER -> BlockErr("unsupported block type: " \o blockConfig.Type)

\* ProcessBlocks: the blocks of the descriptors in order; the first error ends
\* it with no blocks.  isRangeItem is handed a BlockConfig struct, never a map,
\* so no descriptor is expanded as a range.
RECURSIVE ProcessBlocksFrom(_, _, _)
ProcessBlocksFrom(blockConfigs, i, blocks) ==
    IF i > Len(blockConfigs)
    THEN [blocks |-> blocks, err |-> "nil"]
    ELSE LET r == processBlock(blockConfigs[i]) IN
           IF r.err # "nil"
           THEN [blocks |-> <<>>, err |-> "failed to process block: " \o r.err]
           ELSE ProcessBlocksFrom(blockConfigs, i + 1, Append(blocks, r.block))

ProcessBlocks(blockConfigs) ==
    ProcessBlocksFrom(blockConfigs, 1, <<>>)

\* the properties of a slack output's configuration
SlackConfig(channel, text, blocks) ==
    [webhook_url |-> "https://hooks.slack.com/services/test",
     channel |-> channel, text |-> text, blocks |-> blocks]

NoSlackOutput ==
    [webhookURL |-> "", channel |-> "", blockConfigs |-> <<>>, templateEngine |-> FALSE]

\* NewSlackOutput reads webhook_url, channel and blocks; the template engine
\* exists only when there are block descriptors
NewSlackOutput(config) ==
    [webhookURL |-> config.webhook_url,
     channel |-> config.channel,
     blockConfigs |-> config.blocks,
     templateEngine |-> Len(config.blocks) > 0]

\* SlackMessage{}
NoMessage ==
    [Channel |-> "", Text |-> "", Blocks |-> <<>>, Attachments |-> <<>>]

\* formatEventWithBlocks
formatEventWithBlocks(o, event) ==
    LET r == ProcessBlocks(o.blockConfigs) IN
      IF r.err # "nil"
      THEN [message |-> NoMessage, err |-> "failed to process blocks: " \o r.err]
      ELSE [message |-> [NoMessage EXCEPT !.Blocks = r.blocks, !.Channel = o.channel],
            err |-> "nil"]

TopicColor(topic) ==
    CASE topic = "Node" -> "good"
      [] topic = "Allocation" -> "warning"
      [] topic = "Job" -> "#439FE0"
      [] topic = "Evaluation" -> "#764FA5"
      [] OTHER -> "danger"

\* formatEvent: the default message, one attachment with the event's fields
formatEvent(o, event) ==
    [Channel |-> o.channel,
     Text |-> "Nomad Event: " \o event.Topic \o "/" \o event.Type,
     Blocks |-> <<>>,
     Attachments |-> << [Color |-> TopicColor(event.Topic),
                         Fields |-> << <<"Topic", event.Topic>>,
                                       <<"Type", event.Type>>,
                                       <<"Index", ToString(event.Index)>> >>,
                         Payload |-> event.PayloadKey # ""] >>]

\* http.StatusOK
StatusOK == 200

\* what httpClient.Post can come back with
PostOK == [err |-> "nil", StatusCode |-> StatusOK]
PostServerError == [err |-> "nil", StatusCode |-> 500]
PostRefused == [err |-> "connection refused", StatusCode |-> 0]
PostOutcomes == {PostOK, PostServerError, PostRefused}

\* the message Send puts on the wire: the blocks message, or the default
\* message when there are no descriptors or their processing failed
SendMessage(o, event) ==
    IF o.templateEngine /\ Len(o.blockConfigs) > 0
    THEN LET f == formatEventWithBlocks(o, event) IN
           IF f.err # "nil" THEN formatEvent(o, event) ELSE f.message
    ELSE formatEvent(o, event)

\* Send's return value for the outcome of its Post
SendResult(post) ==
    IF post.err # "nil"
    THEN "failed to send Slack message: " \o post.err
    ELSE IF post.StatusCode # StatusOK
         THEN "Slack API returned status " \o ToString(post.StatusCode)
         ELSE "nil"

NoSlack ==
    [pc |-> "idle", config |-> SlackConfig("", "", <<>>), output |-> NoSlackOutput,
     event |-> NoEvent, posted |-> <<>>, ret |-> "none"]

----------------------------------------------------------------------------
\* internal/template/engine.go: Engine.processText.

\* A template string is a sequence of pieces; a rendered string is the
\* sequence of what the pieces wrote.
\* literal text
PieceText == "text"
\* an action on a key every template data has
PieceType == "{{ .Type }}"
\* an action on a key only an item context has
PieceName == "{{ .Name }}"
\* an action on a field of a string: well formed, fails when executed
PieceBadField == "{{ .Type.ID }}"
\* an action that is not closed: fails to parse
PieceUnclosed == "{{ .Type"

TemplatePieces ==
    {PieceText, PieceType, PieceName, PieceBadField, PieceUnclosed}

\* createTemplateData
createTemplateData(event) ==
    [Topic |-> event.Topic, Type |-> event.Type, Index |-> event.Index]

\* template.New("template").Funcs(e.funcMap).Parse(text): its error
Parse(text) ==
    IF \E i \in 1..Len(text) : text[i] = PieceUnclosed
    THEN "unclosed action"
    ELSE "nil"

\* what one piece writes when it is executed against the data, or its error;
\* a key the data map lacks is written as <no value>
ExecPiece(piece, eventData) ==
    CASE piece = PieceType -> [s |-> eventData.Type, err |-> "nil"]
      [] piece = PieceName ->
           [s |-> IF "Name" \in DOMAIN eventData THEN eventData.Name ELSE "<no value>",
            err |-> "nil"]
      [] piece = PieceBadField ->
           [s |-> "", err |-> "can't evaluate field ID in type string"]
      [] OTHER -> [s |-> piece, err |-> "nil"]

\* tmpl.Execute(&buf, eventData): writes into buf piece by piece and stops at
\* the first error, leaving what it wrote
RECURSIVE Execute(_, _, _, _)
Execute(text, i, eventData, buf) ==
    IF i > Len(text)
    THEN [buf |-> buf, err |-> "nil"]
    ELSE LET w == ExecPiece(text[i], eventData) IN
           IF w.err # "nil"
           THEN [buf |-> buf, err |-> w.err]
           ELSE Execute(text, i + 1, eventData, Append(buf, w.s))

\* processText returning what Execute wrote before its error
processTextPartialOnError(text, eventData) ==
    IF Parse(text) # "nil"
    THEN [out |-> text, err |-> "nil"]
    ELSE [out |-> Execute(text, 1, eventData, <<>>).buf, err |-> "nil"]

\* Engine.processText
processText(text, eventData) ==
    IF Parse(text) # "nil"
    THEN [out |-> text, err |-> "nil"]
    ELSE LET x == Execute(text, 1, eventData, <<>>) IN
           IF x.err # "nil"
           THEN [out |-> text, err |-> "nil"]
           ELSE [out |-> x.buf, err |-> "nil"]

NoTmpl ==
    [pc |-> "idle", text |-> <<>>, data |-> createTemplateData(NoEvent),
     out |-> <<>>, err |-> "none"]

----------------------------------------------------------------------------
\* The block template engine's list processors and their range expansion.

\* The values of a configuration (interface{}): a string holding a template,
\* a number, nil, or a map.  The maps are the descriptors of a list: Range is
\* the value of their range key ("" when absent), Condition the value of
\* their condition key, Text the value of their text key.
StrVal(text) ==
    [Kind |-> "string", Str |-> text]

NumVal ==
    [Kind |-> "number"]

NilVal ==
    [Kind |-> "nil"]

MapVal(range, condition, type, text) ==
    [Kind |-> "map", Range |-> range, Condition |-> condition,
     Type |-> type, Text |-> text]

\* the values of the event data below Payload: a list of elements or a string
ListData(items) ==
    [kind |-> "list", items |-> items]

StringData ==
    [kind |-> "string", items |-> <<>>]

\* the elements of a list of the event data: a map or a string
ServiceWeb == [isMap |-> TRUE, m |-> [Name |-> "web", Status |-> "running"]]
ServiceApi == [isMap |-> TRUE, m |-> [Name |-> "api", Status |-> "starting"]]
ServiceName == [isMap |-> FALSE, m |-> "db"]

\* createTemplateData for an event whose payload holds a list of services and
\* their count
RangeData(services) ==
    [Topic |-> "Node", Type |-> "NodeUpdate", Index |-> 1,
     Payload |-> [Services |-> ListData(services), ServiceCount |-> StringData]]

\* strings.Split(strings.TrimPrefix(rangePath, "."), ".")
SplitPath(rangePath) ==
    CASE rangePath = ".Payload.Services" -> <<"Payload", "Services">>
      [] rangePath = ".Payload.ServiceCount" -> <<"Payload", "ServiceCount">>
      [] rangePath = ".Payload.NonExistentServices" -> <<"Payload", "NonExistentServices">>
      [] rangePath = ".Services" -> <<"Services">>
      [] OTHER -> <<rangePath>>

\* getNestedValue: the value at the path; of the enumerated data only Payload
\* is a map
RECURSIVE getNestedValue(_, _)
getNestedValue(data, parts) ==
    IF parts = <<>> \/ Head(parts) \notin DOMAIN data
    THEN [value |-> StringData, err |-> "path not found"]
    ELSE IF Len(parts) = 1
         THEN [value |-> data[Head(parts)], err |-> "nil"]
         ELSE IF Head(parts) # "Payload"
              THEN [value |-> StringData, err |-> "path not found"]
              ELSE getNestedValue(data[Head(parts)], Tail(parts))

\* isRangeItem: a map whose range key holds a string
isRangeItem(item) ==
    item.Kind = "map" /\ item.Range # ""

\* createTemplateItem: the map without its range key
createTemplateItem(rangeItem) ==
    IF rangeItem.Kind = "map" THEN [rangeItem EXCEPT !.Range = ""] ELSE rangeItem

\* convertToSlice: the elements of a list; nil for what is not a list
convertToSlice(value) ==
    [isNil |-> value.kind # "list", slice |-> value.items]

\* createItemContext: the event data overlaid with the keys of a map element;
\* any other element is put under Item
createItemContext(baseData, item) ==
    IF item.isMap THEN item.m @@ baseData ELSE [Item |-> item.m] @@ baseData

\* SlackTemplateEngine.processText: the text must be a string
steProcessText(text, eventData) ==
    IF text.Kind # "string"
    THEN [out |-> <<>>, err |-> "text must be a string"]
    ELSE processText(text.Str, eventData)

\* parseTextConfig: a string, or a map whose text key is rendered (as the
\* empty string when it holds no string)
parseTextConfig(textConfig, eventData) ==
    CASE textConfig.Kind = "string" ->
           [Type |-> "mrkdwn", Text |-> steProcessText(textConfig, eventData).out, err |-> "nil"]
      [] textConfig.Kind = "map" ->
           [Type |-> IF textConfig.Type = "" THEN "mrkdwn" ELSE textConfig.Type,
            Text |-> IF textConfig.Text.Kind = "string"
                     THEN steProcessText(textConfig.Text, eventData).out
                     ELSE <<>>,
            err |-> "nil"]
      [] OTHER -> [Type |-> "", Text |-> <<>>, err |-> "invalid text configuration"]

NoItem ==
    [Type |-> "", Text |-> <<>>]

\* processSingleTextField and processSingleContextElement
processSingleTextField(field, eventData) ==
    LET c == parseTextConfig(field, eventData) IN
      [item |-> [Type |-> c.Type, Text |-> c.Text], err |-> c.err]

\* processElement / createButtonElement / createStaticSelectElement
processElement(elemConfig, eventData) ==
    IF elemConfig.Kind # "map"
    THEN [item |-> NoItem, err |-> "invalid element configuration"]
    ELSE CASE elemConfig.Type = "" ->
                [item |-> NoItem, err |-> "element type is required"]
           [] elemConfig.Type = "button" ->
                LET c == parseTextConfig(elemConfig.Text, eventData) IN
                  [item |-> [Type |-> "button", Text |-> c.Text], err |-> c.err]
           [] elemConfig.Type = "static_select" ->
                [item |-> [Type |-> "static_select", Text |-> <<>>], err |-> "nil"]
           [] OTHER ->
                [item |-> NoItem, err |-> "unsupported element type: " \o elemConfig.Type]

\* createOption
createOption(optionConfig, eventData) ==
    IF optionConfig.Kind # "map"
    THEN [item |-> NoItem, err |-> "invalid option configuration"]
    ELSE LET c == parseTextConfig(optionConfig.Text, eventData) IN
           [item |-> [Type |-> "option", Text |-> c.Text], err |-> c.err]

\* the item processors handed to expandRangeItem, by the list they serve
itemProcessor(list, templateItem, itemData) ==
    CASE list \in {"fields", "context"} -> processSingleTextField(templateItem, itemData)
      [] list = "actions" -> processElement(templateItem, itemData)
      [] OTHER -> createOption(templateItem, itemData)

\* expandRangeItem's loop: the items of the elements whose processing
\* succeeded, in the order of the list
RECURSIVE expandRangeLoop(_, _, _, _, _, _)
expandRangeLoop(list, rangeItem, rangeSlice, k, eventData, results) ==
    IF k > Len(rangeSlice)
    THEN results
    ELSE LET itemContext == createItemContext(eventData, rangeSlice[k])
             templateItem == createTemplateItem(rangeItem)
             p == itemProcessor(list, templateItem, itemContext)
         IN expandRangeLoop(list, rangeItem, rangeSlice, k + 1, eventData,
                            IF p.err = "nil" THEN Append(results, p.item) ELSE results)

\* expandRangeItem
expandRangeItem(list, rangeItem, rangePath, eventData) ==
    LET rangeData == getNestedValue(eventData, SplitPath(rangePath)) IN
      IF rangeData.err # "nil"
      THEN [results |-> <<>>, err |-> rangeData.err]
      ELSE LET rangeSlice == convertToSlice(rangeData.value) IN
             IF rangeSlice.isNil
             THEN [results |-> <<>>, err |-> "range data is not iterable"]
             ELSE [results |-> expandRangeLoop(list, rangeItem, rangeSlice.slice, 1,
                                               eventData, <<>>),
                   err |-> "nil"]

\* history: the items with the position of the descriptor they came from
Tagged(items, i) ==
    [k \in 1..Len(items) |-> [from |-> i, item |-> items[k]]]

\* processFields, processContextElements, processActionElements and
\* processSelectOptions: the same loop over their list.  A range descriptor
\* is expanded in place; a failing expansion and a failing static item are
\* skipped.
RECURSIVE processItems(_, _, _, _, _)
processItems(list, itemsConfig, i, eventData, items) ==
    IF i > Len(itemsConfig)
    THEN items
    ELSE IF isRangeItem(itemsConfig[i])
         THEN LET x == expandRangeItem(list, itemsConfig[i], itemsConfig[i].Range, eventData) IN
                processItems(list, itemsConfig, i + 1, eventData,
                             IF x.err # "nil" THEN items
                             ELSE items \o Tagged(x.results, i))
         ELSE LET p == itemProcessor(list, itemsConfig[i], eventData) IN
                processItems(list, itemsConfig, i + 1, eventData,
                             IF p.err = "nil"
                             THEN Append(items, [from |-> i, item |-> p.item])
                             ELSE items)

processFields(fieldsConfig, eventData) ==
    processItems("fields", fieldsConfig, 1, eventData, <<>>)

processContextElements(elementsConfig, eventData) ==
    processItems("context", elementsConfig, 1, eventData, <<>>)

processActionElements(elementsConfig, eventData) ==
    processItems("actions", elementsConfig, 1, eventData, <<>>)

processSelectOptions(optionsConfig, eventData) ==
    processItems("options", optionsConfig, 1, eventData, <<>>)

\* mapBlockConfig: the BlockConfig of a block's configuration map; the struct
\* has no field for the map's range and condition keys
mapBlockConfig(config) ==
    BlockConfig(config.Type, config.Text.Kind, <<>>)

\* NewSlackOutput's loop over the blocks list: the maps, mapped
RECURSIVE mapBlockConfigs(_)
mapBlockConfigs(blocksConfig) ==
    IF blocksConfig = <<>> THEN <<>>
    ELSE IF Head(blocksConfig).Kind = "map"
         THEN <<mapBlockConfig(Head(blocksConfig))>> \o mapBlockConfigs(Tail(blocksConfig))
         ELSE mapBlockConfigs(Tail(blocksConfig))

\* the blocks of a configured blocks list: every descriptor is a map here, so
\* block k comes from descriptor k
processConfiguredBlocks(blocksConfig) ==
    LET r == ProcessBlocks(mapBlockConfigs(blocksConfig)) IN
      [items |-> [k \in 1..Len(r.blocks) |->
                    [from |-> k, item |-> [Type |-> r.blocks[k].Type, Text |-> <<>>]]],
       err |-> r.err]

NoRng ==
    [pc |-> "idle", list |-> "", items |-> <<>>, data |-> RangeData(<<>>),
     out |-> <<>>, err |-> "none"]

----------------------------------------------------------------------------
\* The condition key of a descriptor.  The list processors above read no
\* condition key; the evaluator and the expansion that consults it are taken
\* from the specification's expansion algorithm (its tests are in
\* internal/outputs/slack_conditional_test.go).

\* condition expressions; event is bound to the scope they are evaluated in
CondRunning == "event.Status == 'running'"
CondNode == "event.Topic == 'Node'"
CondJob == "event.Topic == 'Job'"
CondInvalid == "invalid..syntax"

\* the value of a condition in a scope: [val, err].  err is TRUE when the
\* expression does not compile or its evaluation raises (no such key).
conditionValue(condition, scope) ==
    CASE condition = CondRunning ->
           IF "Status" \in DOMAIN scope
           THEN [val |-> scope.Status = "running", err |-> FALSE]
           ELSE [val |-> FALSE, err |-> TRUE]
      [] condition = CondNode -> [val |-> scope.Topic = "Node", err |-> FALSE]
      [] condition = CondJob -> [val |-> scope.Topic = "Job", err |-> FALSE]
      [] OTHER -> [val |-> FALSE, err |-> TRUE]

\* evaluateCondition with an error treated as false
evaluateConditionErrorIsFalse(condition, scope) ==
    IF condition = ""
    THEN TRUE
    ELSE conditionValue(condition, scope).val

\* evaluateCondition: an empty condition is true; an error is treated as true
evaluateCondition(condition, scope) ==
    IF condition = ""
    THEN TRUE
    ELSE LET r == conditionValue(condition, scope) IN
           IF r.err THEN TRUE ELSE r.val

\* the processing of one descriptor without a range key in its scope: the
\* block builder for a block, the item processor of its list otherwise
processInScope(list, item, scope) ==
    IF list = "blocks"
    THEN LET r == processBlock(mapBlockConfig(item)) IN
           [item |-> [Type |-> r.block.Type, Text |-> <<>>], err |-> r.err]
    ELSE itemProcessor(list, item, scope)

\* steps 2 and 3 of the expansion algorithm for a descriptor without a range
\* key: dropped when its condition is false in the scope, processed otherwise
expandInScope(list, item, scope) ==
    IF item.Kind = "map" /\ ~evaluateCondition(item.Condition, scope)
    THEN <<>>
    ELSE LET p == processInScope(list, item, scope) IN
           IF p.err = "nil" THEN <<p.item>> ELSE <<>>

\* step 1 of the expansion algorithm: one inner scope per element, the
\* template expanded in each, the results appended in list order
RECURSIVE expandElements(_, _, _, _, _)
expandElements(list, templateItem, slice, k, scope) ==
    IF k > Len(slice)
    THEN <<>>
    ELSE expandInScope(list, templateItem, createItemContext(scope, slice[k]))
         \o expandElements(list, templateItem, slice, k + 1, scope)

\* expandDescriptor with the condition evaluated in the outer scope
expandDescriptorOuterScope(list, item, scope) ==
    IF isRangeItem(item)
    THEN LET v == getNestedValue(scope, SplitPath(item.Range)) IN
           IF v.err # "nil" \/ convertToSlice(v.value).isNil
           THEN <<>>
           ELSE IF ~evaluateCondition(item.Condition, scope)
                THEN <<>>
                ELSE expandElements(list, [createTemplateItem(item) EXCEPT !.Condition = ""],
                                    convertToSlice(v.value).slice, 1, scope)
    ELSE expandInScope(list, item, scope)

\* the expansion algorithm for one descriptor: a range that does not resolve
\* to a list drops the descriptor silently
expandDescriptor(list, item, scope) ==
    IF isRangeItem(item)
    THEN LET v == getNestedValue(scope, SplitPath(item.Range)) IN
           IF v.err # "nil" \/ convertToSlice(v.value).isNil
           THEN <<>>
           ELSE expandElements(list, createTemplateItem(item),
                               convertToSlice(v.value).slice, 1, scope)
    ELSE expandInScope(list, item, scope)

\* the descriptors of a list expanded in declaration order
RECURSIVE expandDescriptors(_, _, _, _)
expandDescriptors(list, itemsConfig, i, scope) ==
    IF i > Len(itemsConfig)
    THEN <<>>
    ELSE Tagged(expandDescriptor(list, itemsConfig[i], scope), i)
         \o expandDescriptors(list, itemsConfig, i + 1, scope)

\* the sink variables when the sinks are not part of the specification
SinkIdle ==
    /\ slack = NoSlack
    /\ tmpl = NoTmpl
    /\ rng = NoRng

----------------------------------------------------------------------------
\* cmd/nomad-events/main.go: ServiceManager, the signal loop, processEvents.

NoCfg == ConfigFile("none", <<>>, <<>>)

\* the signal loop waiting in <-sigChan
SigIdle(err) ==
    [pc |-> "wait", cfg |-> NoCfg, newRouter |-> NoRouter,
     newOutputManager |-> NoManager, err |-> err]

\* the dispatcher in its select
DSelect ==
    [pc |-> "select", ev |-> NoEvent, seq |-> 0, router |-> NoRouter, epoch |-> 0,
     matched |-> <<>>, i |-> 0, wait |-> 0]

\* the pointers NewServiceManager's first reloadConfig installs
FirstRouter == [NewRouter(FileA.Routes).router EXCEPT !.gen = 1]
FirstManager == [gen |-> 1, outputs |-> NewManager(FileA.Outputs).outputs]

\* a history entry: "routed" (Route returned outputs), "send" (a Send call took
\* its snapshot) or "return" (a Send call returned); gen is the generation of
\* the router or manager used, epoch the number of configurations installed
\* when the call took its snapshot; a "return" entry has the number of times
\* the sink was invoked (attempts) and the number of those that failed (fails)
LogEntry(kind, seq, outputs, sink, gen, epoch, attempts, err) ==
    [kind |-> kind, seq |-> seq, outputs |-> outputs, sink |-> sink, gen |-> gen,
     epoch |-> epoch, attempts |-> attempts, err |-> err, fails |-> 0,
     slept |-> <<>>]

\* the service's variables when the service is not part of the specification
ServiceIdle ==
    /\ smRouter = NoRouter
    /\ smOutputManager = NoManager
    /\ installed = <<>>
    /\ sig = SigIdle("none")
    /\ reloads = 0
    /\ eventChan = <<>>
    /\ produced = 0
    /\ chanClosed = FALSE
    /\ ctxDone = FALSE
    /\ disp = DSelect
    /\ calls = {}
    /\ nextCall = 1
    /\ log = <<>>

\* the router's variables when routing is part of the service
RouteIdle ==
    /\ cfg = NoCfg
    /\ loadErr = "none"
    /\ router = NoRouter
    /\ routeEv = NoEvent
    /\ routed = [outputs |-> <<>>, err |-> "none"]
    /\ rpc = "service"

\* the state main reaches once NewServiceManager has returned and both
\* goroutines are started
Init ==
    /\ RouteIdle
    /\ smRouter = FirstRouter
    /\ smOutputManager = FirstManager
    /\ installed = << <<FirstRouter, FirstManager>> >>
    /\ sig = SigIdle("nil")
    /\ reloads = 0
    /\ eventChan = <<>>
    /\ produced = 0
    /\ chanClosed = FALSE
    /\ ctxDone = FALSE
    /\ disp = DSelect
    /\ calls = {}
    /\ nextCall = 1
    /\ log = <<>>
    /\ IngestIdle
    /\ SinkIdle

\* ---- the signal loop

\* sig := <-sigChan with SIGHUP: reloadConfig is entered
SighupStep ==
    /\ sig.pc = "wait"
    /\ reloads < MaxReloads
    /\ reloads' = reloads + 1
    /\ sig' = [SigIdle("none") EXCEPT !.pc = "load"]
    /\ UNCHANGED <<smRouter, smOutputManager, installed, eventChan, produced,
                   chanClosed, ctxDone, disp, calls, nextCall, log>>
    /\ UNCHANGED <<routeVars, ingestVars, sinkVars>>

\* reloadConfig: config.LoadConfig(sm.configPath) of whatever the file holds now
ReloadLoadStep ==
    /\ sig.pc = "load"
    /\ \E file \in ServiceFiles :
         LET err == LoadConfig(file) IN
         sig' = IF err # "nil" THEN SigIdle("failed to load configuration")
                ELSE [sig EXCEPT !.pc = "router", !.cfg = file]
    /\ UNCHANGED <<smRouter, smOutputManager, installed, reloads, eventChan,
                   produced, chanClosed, ctxDone, disp, calls, nextCall, log>>
    /\ UNCHANGED <<routeVars, ingestVars, sinkVars>>

\* reloadConfig: routing.NewRouter(cfg.Routes), the live router assigned at once
ReloadNewRouterEager ==
    /\ sig.pc = "router"
    /\ LET r == NewRouter(sig.cfg.Routes) IN
         /\ sig' = IF r.err # "nil" THEN SigIdle("failed to create router")
                   ELSE [sig EXCEPT !.pc = "manager",
                                    !.newRouter = [r.router EXCEPT !.gen = Len(installed) + 1]]
         /\ smRouter' = IF r.err # "nil" THEN smRouter
                        ELSE [r.router EXCEPT !.gen = Len(installed) + 1]
    /\ UNCHANGED <<smOutputManager, installed, reloads, eventChan,
                   produced, chanClosed, ctxDone, disp, calls, nextCall, log>>
    /\ UNCHANGED <<routeVars, ingestVars, sinkVars>>

\* reloadConfig with NewRouter's result assigned to the live pointer directly
ReloadNewRouterAssignsResult ==
    /\ sig.pc = "router"
    /\ LET r == NewRouter(sig.cfg.Routes) IN
         /\ sig' = IF r.err # "nil" THEN SigIdle("failed to create router")
                   ELSE [sig EXCEPT !.pc = "manager",
                                    !.newRouter = [r.router EXCEPT !.gen = Len(installed) + 1]]
         /\ smRouter' = IF r.err # "nil" THEN NoRouter
                        ELSE [r.router EXCEPT !.gen = Len(installed) + 1]
    /\ UNCHANGED <<smOutputManager, installed, reloads, eventChan,
                   produced, chanClosed, ctxDone, disp, calls, nextCall, log>>
    /\ UNCHANGED <<routeVars, ingestVars, sinkVars>>

\* reloadConfig: routing.NewRouter(cfg.Routes)
ReloadNewRouterStep ==
    /\ sig.pc = "router"
    /\ LET r == NewRouter(sig.cfg.Routes) IN
         sig' = IF r.err # "nil" THEN SigIdle("failed to create router")
                ELSE [sig EXCEPT !.pc = "manager",
                                 !.newRouter = [r.router EXCEPT !.gen = Len(installed) + 1]]
    /\ UNCHANGED <<smRouter, smOutputManager, installed, reloads, eventChan,
                   produced, chanClosed, ctxDone, disp, calls, nextCall, log>>
    /\ UNCHANGED <<routeVars, ingestVars, sinkVars>>

\* reloadConfig: outputs.NewManager(cfg.Outputs, client)
ReloadNewManagerStep ==
    /\ sig.pc = "manager"
    /\ LET m == NewManager(sig.cfg.Outputs) IN
         sig' = IF m.err # "nil" THEN SigIdle("failed to create output manager")
                ELSE [sig EXCEPT !.pc = "swap",
                                 !.newOutputManager =
                                     [gen |-> Len(installed) + 1, outputs |-> m.outputs]]
    /\ UNCHANGED <<smRouter, smOutputManager, installed, reloads, eventChan,
                   produced, chanClosed, ctxDone, disp, calls, nextCall, log>>
    /\ UNCHANGED <<routeVars, ingestVars, sinkVars>>

\* reloadConfig with the swap also emptying the event channel
ReloadSwapFlushesChannel ==
    /\ sig.pc = "swap"
    /\ smRouter' = sig.newRouter
    /\ smOutputManager' = sig.newOutputManager
    /\ installed' = Append(installed, <<sig.newRouter, sig.newOutputManager>>)
    /\ sig' = SigIdle("nil")
    /\ eventChan' = <<>>
    /\ UNCHANGED <<reloads, produced, chanClosed, ctxDone, disp, calls, nextCall, log>>
    /\ UNCHANGED <<routeVars, ingestVars, sinkVars>>

\* reloadConfig: sm.mu.Lock(); both pointers replaced; Unlock; return nil
ReloadSwapStep ==
    /\ sig.pc = "swap"
    /\ smRouter' = sig.newRouter
    /\ smOutputManager' = sig.newOutputManager
    /\ installed' = Append(installed, <<sig.newRouter, sig.newOutputManager>>)
    /\ sig' = SigIdle("nil")
    /\ UNCHANGED <<reloads, eventChan, produced, chanClosed, ctxDone, disp, calls,
                   nextCall, log>>
    /\ UNCHANGED <<routeVars, ingestVars, sinkVars>>

\* sig := <-sigChan with SIGINT or SIGTERM: cancel()
ShutdownCancelStep ==
    /\ sig.pc = "wait"
    /\ ctxDone' = TRUE
    /\ sig' = [sig EXCEPT !.pc = "close"]
    /\ UNCHANGED <<smRouter, smOutputManager, installed, reloads, eventChan,
                   produced, chanClosed, disp, calls, nextCall, log>>
    /\ UNCHANGED <<routeVars, ingestVars, sinkVars>>

\* close(eventChan); main then waits for the goroutines and returns
ShutdownCloseStep ==
    /\ sig.pc = "close"
    /\ chanClosed' = TRUE
    /\ sig' = [sig EXCEPT !.pc = "exit"]
    /\ UNCHANGED <<smRouter, smOutputManager, installed, reloads, eventChan,
                   produced, ctxDone, disp, calls, nextCall, log>>
    /\ UNCHANGED <<routeVars, ingestVars, sinkVars>>

\* ---- the ingest side, as far as the dispatcher sees it

\* eventChan <- nomadEvent (blocks while the channel is full)
IngestDeliverStep ==
    /\ ~ctxDone
    /\ produced < MaxEvents
    /\ Len(eventChan) < ChanCap
    /\ \E e \in ServiceEvents :
         eventChan' = Append(eventChan, [ev |-> e, seq |-> produced + 1])
    /\ produced' = produced + 1
    /\ UNCHANGED <<smRouter, smOutputManager, installed, sig, reloads,
                   chanClosed, ctxDone, disp, calls, nextCall, log>>
    /\ UNCHANGED <<routeVars, ingestVars, sinkVars>>

\* ---- processEvents

\* select: case <-ctx.Done(): return
DispatchCtxDoneStep ==
    /\ disp.pc = "select"
    /\ ctxDone
    /\ disp' = [disp EXCEPT !.pc = "returned"]
    /\ UNCHANGED <<smRouter, smOutputManager, installed, sig, reloads, eventChan,
                   produced, chanClosed, ctxDone, calls, nextCall, log>>
    /\ UNCHANGED <<routeVars, ingestVars, sinkVars>>

\* select: case event, ok := <-eventChan with !ok: return
DispatchChanClosedStep ==
    /\ disp.pc = "select"
    /\ eventChan = <<>>
    /\ chanClosed
    /\ disp' = [disp EXCEPT !.pc = "returned"]
    /\ UNCHANGED <<smRouter, smOutputManager, installed, sig, reloads, eventChan,
                   produced, chanClosed, ctxDone, calls, nextCall, log>>
    /\ UNCHANGED <<routeVars, ingestVars, sinkVars>>

\* select: case event, ok := <-eventChan with ok
DispatchRecvStep ==
    /\ disp.pc = "select"
    /\ eventChan # <<>>
    /\ disp' = [DSelect EXCEPT !.pc = "route", !.ev = Head(eventChan).ev,
                            !.seq = Head(eventChan).seq]
    /\ eventChan' = Tail(eventChan)
    /\ UNCHANGED <<smRouter, smOutputManager, installed, sig, reloads,
                   produced, chanClosed, ctxDone, calls, nextCall, log>>
    /\ UNCHANGED <<routeVars, ingestVars, sinkVars>>

\* ServiceManager.Route: RLock; router := sm.router; RUnlock
RouteSnapshotStep ==
    /\ disp.pc = "route"
    /\ disp' = [disp EXCEPT !.pc = "routing", !.router = smRouter,
                            !.epoch = Len(installed)]
    /\ UNCHANGED <<smRouter, smOutputManager, installed, sig, reloads, eventChan,
                   produced, chanClosed, ctxDone, calls, nextCall, log>>
    /\ UNCHANGED <<routeVars, ingestVars, sinkVars>>

\* the router ServiceManager.Route calls Route on, read again after the unlock
RouteTargetLive == smRouter

\* the router ServiceManager.Route calls Route on: its snapshot
RouteTarget == disp.router

\* the dispatcher's position once it is done with sink i of n: the next sink,
\* or the select when there is none
AfterSink(i, n) ==
    IF i + 1 > n THEN [pc |-> "select", i |-> 0] ELSE [pc |-> "send", i |-> i + 1]

\* router.Route(event) returns; on an error the event is skipped
RouteReturnStep ==
    /\ disp.pc = "routing"
    /\ LET r == RouterRoute(RouteTarget, disp.ev) IN
         /\ log' = Append(log, LogEntry("routed", disp.seq, r.outputs, "", RouteTarget.gen,
                                         disp.epoch, 0, r.err))
         /\ disp' = IF r.err # "nil" \/ Len(r.outputs) = 0
                 THEN [disp EXCEPT !.pc = "select"]
                 ELSE [disp EXCEPT !.pc = "send", !.matched = r.outputs, !.i = 1]
    /\ UNCHANGED <<smRouter, smOutputManager, installed, sig, reloads, eventChan,
                   produced, chanClosed, ctxDone, calls, nextCall>>
    /\ UNCHANGED <<routeVars, ingestVars, sinkVars>>

NewCall(id, seq, sink, manager, epoch) ==
    [id |-> id, seq |-> seq, sink |-> sink, manager |-> manager, epoch |-> epoch,
     attempt |-> 0, fails |-> 0, lastErr |-> "nil", slept |-> <<>>]

\* the Send of sink i started in a goroutine of its own, the loop moving on
SendCallAsync ==
    /\ disp.pc = "send"
    /\ calls' = calls \cup {NewCall(nextCall, disp.seq, disp.matched[disp.i],
                                    smOutputManager, Len(installed))}
    /\ nextCall' = nextCall + 1
    /\ log' = Append(log, LogEntry("send", disp.seq, <<>>, disp.matched[disp.i],
                                   smOutputManager.gen, Len(installed), 0, "nil"))
    /\ disp' = [disp EXCEPT !.pc = AfterSink(disp.i, Len(disp.matched)).pc,
                      !.i = AfterSink(disp.i, Len(disp.matched)).i]
    /\ UNCHANGED <<smRouter, smOutputManager, installed, sig, reloads, eventChan,
                   produced, chanClosed, ctxDone>>
    /\ UNCHANGED <<routeVars, ingestVars, sinkVars>>

\* ServiceManager.Send(matchedOutputs[i], event): RLock; outputManager :=
\* sm.outputManager; RUnlock; the dispatcher stays in the call until it returns
SendCallStep ==
    /\ disp.pc = "send"
    /\ calls' = calls \cup {NewCall(nextCall, disp.seq, disp.matched[disp.i],
                                    smOutputManager, Len(installed))}
    /\ nextCall' = nextCall + 1
    /\ log' = Append(log, LogEntry("send", disp.seq, <<>>, disp.matched[disp.i],
                                   smOutputManager.gen, Len(installed), 0, "nil"))
    /\ disp' = [disp EXCEPT !.pc = "sending", !.wait = nextCall]
    /\ UNCHANGED <<smRouter, smOutputManager, installed, sig, reloads, eventChan,
                   produced, chanClosed, ctxDone>>
    /\ UNCHANGED <<routeVars, ingestVars, sinkVars>>

\* the index of the sink the loop turns to after sink i's Send returned err,
\* when the loop is left at the first error
NextSinkBreakOnError(i, n, err) == IF err # "nil" THEN n ELSE i

\* the index of the sink the loop is done with after sink i's Send returned err:
\* the error is logged and the range loop goes on
NextSinkDone(i, n, err) == i

\* the error of the sink itself
SinkError == "sink error"

\* r.baseDelay * time.Duration(1 << (attempt-1))
RetryDelay(baseDelay, attempt) ==
    baseDelay * 2^(attempt - 1)

\* fmt.Errorf("failed to send event after %d attempts: %w", r.maxRetries, lastErr)
RetryError(m, lastErr) ==
    "failed to send event after " \o ToString(m) \o " attempts: " \o lastErr

\* the Send call c returns err to its caller
Returned(c, err, attempts, fails) ==
    /\ calls' = calls \ {c}
    /\ log' = Append(log, [LogEntry("return", c.seq, <<>>, c.sink, c.manager.gen,
                                    c.epoch, attempts, err) EXCEPT !.fails = fails,
                                                             !.slept = c.slept])
    /\ disp' = IF disp.pc = "sending" /\ disp.wait = c.id
            THEN LET next == AfterSink(NextSinkDone(disp.i, Len(disp.matched), err), Len(disp.matched))
                 IN [disp EXCEPT !.pc = next.pc, !.i = next.i, !.wait = 0]
            ELSE disp

\* Manager.Send: the sink id is not in the manager's outputs
SendNotFoundStep ==
    /\ \E c \in calls :
         /\ c.sink \notin DOMAIN c.manager.outputs
         /\ Returned(c, "output not found", 0, 0)
    /\ UNCHANGED <<smRouter, smOutputManager, installed, sig, reloads, eventChan,
                   produced, chanClosed, ctxDone, nextCall>>
    /\ UNCHANGED <<routeVars, ingestVars, sinkVars>>

\* RetryOutput.Send with no attempt left to make (maxRetries below 1)
SendNoAttemptStep ==
    /\ \E c \in calls :
         /\ c.sink \in DOMAIN c.manager.outputs
         /\ c.manager.outputs[c.sink].retry
         /\ c.manager.outputs[c.sink].maxRetries < 1
         /\ Returned(c, RetryError(c.manager.outputs[c.sink].maxRetries, c.lastErr), 0, 0)
    /\ UNCHANGED <<smRouter, smOutputManager, installed, sig, reloads, eventChan,
                   produced, chanClosed, ctxDone, nextCall>>
    /\ UNCHANGED <<routeVars, ingestVars, sinkVars>>

\* RetryOutput.Send going on to the next attempt after a success as well
SendAttemptNoStopOnSuccess ==
    /\ \E c \in calls : \E ok \in BOOLEAN :
         LET out == c.manager.outputs[c.sink]
             attempt == c.attempt + 1
             fails == IF ok THEN c.fails ELSE c.fails + 1
         IN
         /\ c.sink \in DOMAIN c.manager.outputs
         /\ out.retry => attempt <= out.maxRetries
         /\ IF out.retry /\ attempt < out.maxRetries
            THEN /\ calls' = (calls \ {c}) \cup
                              {[c EXCEPT !.attempt = attempt, !.fails = fails,
                                         !.lastErr = IF ok THEN c.lastErr ELSE SinkError]}
                 /\ log' = log
                 /\ disp' = disp
            ELSE IF ok THEN Returned(c, "nil", attempt, fails)
            ELSE IF out.retry
            THEN Returned(c, RetryError(out.maxRetries, SinkError), attempt, fails)
            ELSE Returned(c, SinkError, attempt, fails)
    /\ UNCHANGED <<smRouter, smOutputManager, installed, sig, reloads, eventChan,
                   produced, chanClosed, ctxDone, nextCall>>
    /\ UNCHANGED <<routeVars, ingestVars, sinkVars>>

\* RetryOutput.Send with the loop left one attempt early
SendAttemptOneShort ==
    /\ \E c \in calls : \E ok \in BOOLEAN :
         LET out == c.manager.outputs[c.sink]
             attempt == c.attempt + 1
         IN
         /\ c.sink \in DOMAIN c.manager.outputs
         /\ out.retry => attempt <= out.maxRetries
         /\ IF ok THEN Returned(c, "nil", attempt, c.fails)
            ELSE IF out.retry /\ attempt < out.maxRetries - 1
            THEN /\ calls' = (calls \ {c}) \cup
                              {[c EXCEPT !.attempt = attempt, !.fails = c.fails + 1,
                                         !.lastErr = SinkError]}
                 /\ log' = log
                 /\ disp' = disp
            ELSE IF out.retry
            THEN Returned(c, RetryError(out.maxRetries, SinkError), attempt, c.fails + 1)
            ELSE Returned(c, SinkError, attempt, c.fails + 1)
    /\ UNCHANGED <<smRouter, smOutputManager, installed, sig, reloads, eventChan,
                   produced, chanClosed, ctxDone, nextCall>>
    /\ UNCHANGED <<routeVars, ingestVars, sinkVars>>

\* RetryOutput.Send shifting by attempt instead of attempt-1
SendAttemptDelayOneAhead ==
    /\ \E c \in calls : \E ok \in BOOLEAN :
         LET out == c.manager.outputs[c.sink]
             attempt == c.attempt + 1
         IN
         /\ c.sink \in DOMAIN c.manager.outputs
         /\ out.retry => attempt <= out.maxRetries
         /\ IF ok THEN Returned(c, "nil", attempt, c.fails)
            ELSE IF out.retry /\ attempt < out.maxRetries
            THEN /\ calls' = (calls \ {c}) \cup
                              {[c EXCEPT !.attempt = attempt, !.fails = c.fails + 1,
                                         !.lastErr = SinkError,
                                         !.slept = Append(@, RetryDelay(out.baseDelay, attempt + 1))]}
                 /\ log' = log
                 /\ disp' = disp
            ELSE IF out.retry
            THEN Returned(c, RetryError(out.maxRetries, SinkError), attempt, c.fails + 1)
            ELSE Returned(c, SinkError, attempt, c.fails + 1)
    /\ UNCHANGED <<smRouter, smOutputManager, installed, sig, reloads, eventChan,
                   produced, chanClosed, ctxDone, nextCall>>
    /\ UNCHANGED <<routeVars, ingestVars, sinkVars>>

\* one Send of the sink itself: it succeeds or fails; a RetryOutput returns
\* nil on a success, sleeps and tries again while attempt < maxRetries, and
\* returns the wrapped last error after the last attempt
SendAttemptStep ==
    /\ \E c \in calls : \E ok \in BOOLEAN :
         LET out == c.manager.outputs[c.sink]
             attempt == c.attempt + 1
         IN
         /\ c.sink \in DOMAIN c.manager.outputs
         /\ out.retry => attempt <= out.maxRetries
         /\ IF ok THEN Returned(c, "nil", attempt, c.fails)
            ELSE IF out.retry /\ attempt < out.maxRetries
            THEN /\ calls' = (calls \ {c}) \cup
                              {[c EXCEPT !.attempt = attempt, !.fails = c.fails + 1,
                                         !.lastErr = SinkError,
                                         !.slept = Append(@, RetryDelay(out.baseDelay, attempt))]}
                 /\ log' = log
                 /\ disp' = disp
            ELSE IF out.retry
            THEN Returned(c, RetryError(out.maxRetries, SinkError), attempt, c.fails + 1)
            ELSE Returned(c, SinkError, attempt, c.fails + 1)
    /\ UNCHANGED <<smRouter, smOutputManager, installed, sig, reloads, eventChan,
                   produced, chanClosed, ctxDone, nextCall>>
    /\ UNCHANGED <<routeVars, ingestVars, sinkVars>>

Next ==
    \/ SighupStep
    \/ ReloadLoadStep
    \/ ReloadNewRouterStep
    \/ ReloadNewManagerStep
    \/ ReloadSwapStep
    \/ ShutdownCancelStep
    \/ ShutdownCloseStep
    \/ IngestDeliverStep
    \/ DispatchCtxDoneStep
    \/ DispatchChanClosedStep
    \/ DispatchRecvStep
    \/ RouteSnapshotStep
    \/ RouteReturnStep
    \/ SendCallStep
    \/ SendNotFoundStep
    \/ SendNoAttemptStep
    \/ SendAttemptStep

Spec == Init /\ [][Next]_vars

\* The retry wrapper on its own: a run of Sends to one sink registry, whose
\* sink "a" is wrapped with max_retries from -1 to MaxAttempts or not wrapped.
RetryManagers ==
    { [gen |-> 1,
       outputs |-> NewManager([n \in {"a"} |-> OutputCfg("stdout", TRUE, m, d)]).outputs]
        : m \in -1..MaxAttempts, d \in {"", "0s", "500ms"} }
    \cup { [gen |-> 1, outputs |-> NewManager([n \in {"a"} |-> StdoutOut]).outputs] }

InitRetry ==
    /\ RouteIdle
    /\ IngestIdle
    /\ SinkIdle
    /\ smRouter = NoRouter
    /\ smOutputManager \in RetryManagers
    /\ installed = << <<NoRouter, smOutputManager>> >>
    /\ sig = SigIdle("nil")
    /\ reloads = 0
    /\ eventChan = <<>>
    /\ produced = 1
    /\ chanClosed = FALSE
    /\ ctxDone = FALSE
    /\ \E n \in 1..MaxSends : \E sinks \in [1..n -> {"a", "ghost"}] :
         disp = [DSelect EXCEPT !.pc = "send", !.ev = EvJobReg, !.seq = 1,
                                !.matched = sinks, !.i = 1, !.epoch = 1]
    /\ calls = {}
    /\ nextCall = 1
    /\ log = <<>>

NextRetry ==
    \/ SendCallStep
    \/ SendNotFoundStep
    \/ SendNoAttemptStep
    \/ SendAttemptStep

SpecRetry == InitRetry /\ [][NextRetry]_vars

----------------------------------------------------------------------------
\* internal/nomad: the steps of Stream, and of the upstream.

\* streamWithRetry comparing the attempt counter with > instead of >=
AfterAttemptOneMore(e, err) ==
    IF err = "nil"
    THEN [e EXCEPT !.retryBackoff = Second, !.pc = "stream", !.batch = <<>>]
    ELSE IF e.retries + 1 > maxRetries
         THEN [e EXCEPT !.retries = e.retries + 1, !.pc = "outerWait", !.batch = <<>>]
         ELSE [e EXCEPT !.retries = e.retries + 1, !.pc = "innerWait", !.batch = <<>>]

\* streamWithRetry's return handed on by Stream: an exhausted inner run ends
\* Stream
AfterAttemptReturnOnExhaust(e, err) ==
    IF err = "nil"
    THEN [e EXCEPT !.retryBackoff = Second, !.pc = "stream", !.batch = <<>>]
    ELSE IF e.retries + 1 >= maxRetries
         THEN [e EXCEPT !.retries = e.retries + 1, !.pc = "returned", !.batch = <<>>]
         ELSE [e EXCEPT !.retries = e.retries + 1, !.pc = "innerWait", !.batch = <<>>]

\* streamWithRetry after connectAndStream returned err: nil resets the backoff
\* and returns nil to Stream; an error counts the attempt and either returns
\* "max retries exceeded" to Stream, which waits, or waits in the inner loop
AfterAttempt(e, err) ==
    IF err = "nil"
    THEN [e EXCEPT !.retryBackoff = Second, !.pc = "stream", !.batch = <<>>]
    ELSE IF e.retries + 1 >= maxRetries
         THEN [e EXCEPT !.retries = e.retries + 1, !.pc = "outerWait", !.batch = <<>>]
         ELSE [e EXCEPT !.retries = e.retries + 1, !.pc = "innerWait", !.batch = <<>>]

IngestFrame ==
    UNCHANGED <<smRouter, smOutputManager, installed, sig, reloads, chanClosed,
                ctxDone, disp, calls, nextCall, log, slack, tmpl, rng>>

\* Stream's loop head: return on a cancelled context, else streamWithRetry
StreamLoopStep ==
    /\ es.pc = "stream"
    /\ es' = IF ctxDone THEN [es EXCEPT !.pc = "returned"]
             ELSE [es EXCEPT !.pc = "connect", !.retries = 0]
    /\ UNCHANGED <<up, eventChan, produced>>
    /\ IngestFrame /\ UNCHANGED routeVars

\* connectAndStream: client.EventStream().Stream(ctx, topics, es.lastIndex, ..)
\* returns a stream
ConnectStep ==
    /\ es.pc = "connect"
    /\ up.opens < MaxConnects
    /\ es' = [es EXCEPT !.pc = "streaming", !.startIndex = es.lastIndex,
                        !.recv = "none"]
    /\ up' = [up EXCEPT !.state = "open", !.frames = <<>>, !.opens = up.opens + 1]
    /\ UNCHANGED <<eventChan, produced>>
    /\ IngestFrame /\ UNCHANGED routeVars

\* connectAndStream: the handshake fails, "failed to start event stream" (the
\* upstream refuses at most maxFails handshakes)
ConnectFail(maxFails) ==
    /\ es.pc = "connect"
    /\ up.fails < maxFails
    /\ es' = AfterAttempt(es, "failed to start event stream")
    /\ up' = [up EXCEPT !.fails = up.fails + 1]
    /\ UNCHANGED <<eventChan, produced>>
    /\ IngestFrame /\ UNCHANGED routeVars

ConnectFailStep == ConnectFail(MaxFails)

\* connectAndStream: the handshake is made with the cancelled context and
\* fails with the context's error
ConnectCtxStep ==
    /\ es.pc = "connect"
    /\ ctxDone
    /\ es' = AfterAttempt(es, "context canceled")
    /\ UNCHANGED <<up, eventChan, produced>>
    /\ IngestFrame /\ UNCHANGED routeVars

\* streamWithRetry's select: case <-ctx.Done(): return ctx.Err() to Stream
InnerWaitCtxStep ==
    /\ es.pc = "innerWait"
    /\ ctxDone
    /\ es' = [es EXCEPT !.pc = "outerWait"]
    /\ UNCHANGED <<up, eventChan, produced>>
    /\ IngestFrame /\ UNCHANGED routeVars

\* streamWithRetry's select: case <-time.After(es.retryBackoff)
InnerWaitTimerStep ==
    /\ es.pc = "innerWait"
    /\ es' = [es EXCEPT !.pc = "connect",
                        !.retryBackoff = exponentialBackoff(es.retryBackoff)]
    /\ UNCHANGED <<up, eventChan, produced>>
    /\ IngestFrame /\ UNCHANGED routeVars

\* Stream's select after an error: case <-ctx.Done(): return ctx.Err()
OuterWaitCtxStep ==
    /\ es.pc = "outerWait"
    /\ ctxDone
    /\ es' = [es EXCEPT !.pc = "returned"]
    /\ UNCHANGED <<up, eventChan, produced>>
    /\ IngestFrame /\ UNCHANGED routeVars

\* Stream's select after an error: case <-time.After(es.retryBackoff)
OuterWaitTimerStep ==
    /\ es.pc = "outerWait"
    /\ es' = [es EXCEPT !.pc = "stream",
                        !.retryBackoff = exponentialBackoff(es.retryBackoff)]
    /\ UNCHANGED <<up, eventChan, produced>>
    /\ IngestFrame /\ UNCHANGED routeVars

\* connectAndStream's select: case <-ctx.Done(): return ctx.Err()
StreamCtxStep ==
    /\ es.pc = "streaming"
    /\ ctxDone
    /\ es' = AfterAttempt(es, "context canceled")
    /\ UNCHANGED <<up, eventChan, produced>>
    /\ IngestFrame /\ UNCHANGED routeVars

\* connectAndStream's select: case eventWrapper := <-events with a frame; the
\* range over eventWrapper.Events is entered (no iteration for an empty list)
RecvFrameStep ==
    /\ es.pc = "streaming"
    /\ up.frames # <<>>
    /\ LET frame == Head(up.frames) IN
         es' = [es EXCEPT !.recv = IF frame.err THEN "error" ELSE "batch",
                          !.batch = frame.events,
                          !.received = es.received \o frame.events,
                          !.pc = IF frame.events = <<>> THEN "streaming" ELSE "event"]
    /\ up' = [up EXCEPT !.frames = Tail(up.frames)]
    /\ UNCHANGED <<eventChan, produced>>
    /\ IngestFrame /\ UNCHANGED routeVars

\* connectAndStream's select: case eventWrapper := <-events on the closed
\* channel: eventWrapper == nil, continue
RecvClosedStep ==
    /\ es.pc = "streaming"
    /\ up.frames = <<>>
    /\ up.state = "closed"
    /\ es' = [es EXCEPT !.recv = "closed"]
    /\ UNCHANGED <<up, eventChan, produced>>
    /\ IngestFrame /\ UNCHANGED routeVars

\* the range body up to the select, with a failed side-call failing the stream
EventStepFailOnDiffError ==
    /\ es.pc = "event"
    /\ LET event == Head(es.batch) IN
         IF NeedsDiff(event)
         THEN \E res \in FetchResults :
                es' = IF res = "diff"
                      THEN [es EXCEPT !.nomadEvent = [event EXCEPT !.Diff = "diff"],
                                      !.sideCall = res,
                                      !.diffCalls = Append(es.diffCalls, event),
                                      !.lastIndex = event.Index, !.pc = "send"]
                      ELSE [AfterAttempt(es, res) EXCEPT
                                      !.sideCall = res,
                                      !.diffCalls = Append(es.diffCalls, event)]
         ELSE es' = [es EXCEPT !.nomadEvent = event, !.sideCall = "none",
                               !.lastIndex = event.Index, !.pc = "send"]
    /\ UNCHANGED <<up, eventChan, produced>>
    /\ IngestFrame /\ UNCHANGED routeVars

\* the range body up to the select: the nomad.Event is built, the job diff is
\* fetched for a Job/JobRegistered event of a version above 1 (an error is
\* logged and the Diff stays nil), and es.lastIndex = event.Index
EventStep ==
    /\ es.pc = "event"
    /\ LET event == Head(es.batch) IN
         IF NeedsDiff(event)
         THEN \E res \in FetchResults :
                es' = [es EXCEPT !.nomadEvent = [event EXCEPT
                                     !.Diff = IF res = "diff" THEN "diff" ELSE NoDiff],
                                 !.sideCall = res,
                                 !.diffCalls = Append(es.diffCalls, event),
                                 !.lastIndex = event.Index, !.pc = "send"]
         ELSE es' = [es EXCEPT !.nomadEvent = event, !.sideCall = "none",
                               !.lastIndex = event.Index, !.pc = "send"]
    /\ UNCHANGED <<up, eventChan, produced>>
    /\ IngestFrame /\ UNCHANGED routeVars

\* the range body's send made without blocking: the event is dropped when the
\* channel is full
SendEventDropWhenFull ==
    /\ es.pc = "send"
    /\ IF chanClosed
       THEN /\ es' = [es EXCEPT !.pc = "panic"]
            /\ UNCHANGED <<eventChan, produced>>
       ELSE /\ IF Len(eventChan) < ChanCap
               THEN /\ eventChan' = Append(eventChan, [ev |-> es.nomadEvent, seq |-> produced + 1])
                    /\ produced' = produced + 1
                    /\ es' = [es EXCEPT !.batch = Tail(es.batch),
                                        !.sent = Append(es.sent, es.nomadEvent),
                                        !.pc = IF Tail(es.batch) = <<>> THEN "streaming"
                                               ELSE "event"]
               ELSE /\ UNCHANGED <<eventChan, produced>>
                    /\ es' = [es EXCEPT !.batch = Tail(es.batch),
                                        !.pc = IF Tail(es.batch) = <<>> THEN "streaming"
                                               ELSE "event"]
    /\ UNCHANGED up
    /\ IngestFrame /\ UNCHANGED routeVars

\* the range body's select: case eventChan <- nomadEvent (a send on a closed
\* channel panics)
SendEventStep ==
    /\ es.pc = "send"
    /\ IF chanClosed
       THEN /\ es' = [es EXCEPT !.pc = "panic"]
            /\ UNCHANGED <<eventChan, produced>>
       ELSE /\ Len(eventChan) < ChanCap
            /\ eventChan' = Append(eventChan, [ev |-> es.nomadEvent, seq |-> produced + 1])
            /\ produced' = produced + 1
            /\ es' = [es EXCEPT !.batch = Tail(es.batch),
                                !.sent = Append(es.sent, es.nomadEvent),
                                !.pc = IF Tail(es.batch) = <<>> THEN "streaming"
                                       ELSE "event"]
    /\ UNCHANGED up
    /\ IngestFrame /\ UNCHANGED routeVars

\* the range body's select: case <-ctx.Done(): return ctx.Err()
SendCtxStep ==
    /\ es.pc = "send"
    /\ ctxDone
    /\ es' = AfterAttempt(es, "context canceled")
    /\ UNCHANGED <<up, eventChan, produced>>
    /\ IngestFrame /\ UNCHANGED routeVars

\* ---- the upstream event API

\* the upstream sends a batch of one or two events with the next indices
UpstreamBatch(kinds) ==
    /\ up.state = "open"
    /\ Len(up.frames) < MaxFrames
    /\ \E n \in 1..2 : \E kind \in kinds :
         /\ up.next + n - 1 <= MaxIndex
         /\ up' = [up EXCEPT
                     !.frames = Append(@, BatchFrame(
                         [k \in 1..n |-> UpstreamEvent(kind, up.next + k - 1)])),
                     !.next = up.next + n]
    /\ UNCHANGED <<es, eventChan, produced>>
    /\ IngestFrame /\ UNCHANGED routeVars

UpstreamBatchStep == UpstreamBatch(StreamKinds)

UpstreamAnyKindStep == UpstreamBatch(UpstreamKinds)

\* the stream breaks: the API delivers an error frame and closes its channel
UpstreamErrorStep ==
    /\ up.state = "open"
    /\ Len(up.frames) < MaxFrames
    /\ up' = [up EXCEPT !.frames = Append(@, ErrorFrame), !.state = "closed"]
    /\ UNCHANGED <<es, eventChan, produced>>
    /\ IngestFrame /\ UNCHANGED routeVars

\* the API closes its channel without an error frame
UpstreamCloseStep ==
    /\ up.state = "open"
    /\ up' = [up EXCEPT !.state = "closed"]
    /\ UNCHANGED <<es, eventChan, produced>>
    /\ IngestFrame /\ UNCHANGED routeVars

\* the dispatcher takes an event from the channel (its processing is not part
\* of this specification)
DrainStep ==
    /\ eventChan # <<>>
    /\ eventChan' = Tail(eventChan)
    /\ UNCHANGED <<es, up, produced>>
    /\ IngestFrame /\ UNCHANGED routeVars

InitIngest ==
    /\ RouteIdle
    /\ smRouter = FirstRouter
    /\ smOutputManager = FirstManager
    /\ installed = << <<FirstRouter, FirstManager>> >>
    /\ sig = SigIdle("nil")
    /\ reloads = 0
    /\ eventChan = <<>>
    /\ produced = 0
    /\ chanClosed = FALSE
    /\ ctxDone = FALSE
    /\ disp = DSelect
    /\ calls = {}
    /\ nextCall = 1
    /\ log = <<>>
    /\ IngestIdle
    /\ SinkIdle

NextIngest ==
    \/ StreamLoopStep
    \/ ConnectStep
    \/ ConnectFailStep
    \/ InnerWaitCtxStep
    \/ InnerWaitTimerStep
    \/ OuterWaitCtxStep
    \/ OuterWaitTimerStep
    \/ StreamCtxStep
    \/ RecvFrameStep
    \/ RecvClosedStep
    \/ EventStep
    \/ SendEventStep
    \/ SendCtxStep
    \/ UpstreamBatchStep
    \/ UpstreamErrorStep
    \/ UpstreamCloseStep
    \/ DrainStep
    \/ ShutdownCancelStep
    \/ ShutdownCloseStep

SpecIngest == InitIngest /\ [][NextIngest]_vars

\* The ingest goroutine is scheduled whenever it can take a step, and a
\* select whose case stays ready eventually takes that case.
FairIngest ==
    /\ WF_vars(StreamLoopStep)
    /\ WF_vars(ConnectStep)
    /\ WF_vars(ConnectFailStep)
    /\ WF_vars(ConnectCtxStep)
    /\ WF_vars(InnerWaitCtxStep)
    /\ WF_vars(InnerWaitTimerStep)
    /\ WF_vars(OuterWaitCtxStep)
    /\ WF_vars(OuterWaitTimerStep)
    /\ WF_vars(StreamCtxStep)
    /\ WF_vars(RecvFrameStep)
    /\ WF_vars(EventStep)
    /\ WF_vars(SendEventStep)
    /\ WF_vars(SendCtxStep)

\* the ingest specification with the handshakes made after the cancellation
NextIngestFair ==
    \/ StreamLoopStep
    \/ ConnectStep
    \/ ConnectFailStep
    \/ InnerWaitCtxStep
    \/ InnerWaitTimerStep
    \/ OuterWaitCtxStep
    \/ OuterWaitTimerStep
    \/ StreamCtxStep
    \/ RecvFrameStep
    \/ RecvClosedStep
    \/ EventStep
    \/ SendEventStep
    \/ SendCtxStep
    \/ UpstreamBatchStep
    \/ UpstreamErrorStep
    \/ UpstreamCloseStep
    \/ DrainStep
    \/ ShutdownCancelStep
    \/ ShutdownCloseStep
    \/ ConnectCtxStep

SpecIngestFair == InitIngest /\ [][NextIngestFair]_vars /\ FairIngest

\* The ingest client against an upstream that refuses many handshakes: the
\* backoff escalates to its cap and an inner retry run is exhausted.
ConnectRefusedStep == ConnectFail(MaxRefusals)

NextBackoff ==
    \/ StreamLoopStep
    \/ ConnectStep
    \/ ConnectRefusedStep
    \/ InnerWaitCtxStep
    \/ InnerWaitTimerStep
    \/ OuterWaitCtxStep
    \/ OuterWaitTimerStep
    \/ StreamCtxStep
    \/ RecvFrameStep
    \/ EventStep
    \/ SendEventStep
    \/ SendCtxStep
    \/ UpstreamBatchStep
    \/ DrainStep
    \/ ShutdownCancelStep

SpecBackoff == InitIngest /\ [][NextBackoff]_vars

\* The ingest client on a stream that stays up, with events of every kind.
NextEnrich ==
    \/ StreamLoopStep
    \/ ConnectStep
    \/ RecvFrameStep
    \/ EventStep
    \/ SendEventStep
    \/ UpstreamAnyKindStep
    \/ DrainStep

SpecEnrich == InitIngest /\ [][NextEnrich]_vars

----------------------------------------------------------------------------
\* The routing specification: a route tree is compiled and one event routed.

NoRouted == [outputs |-> <<>>, err |-> "none"]

AllOutputNames == {"a", "b", "node_events", "job_events", "all_events"}

InitRoute ==
    /\ cfg \in { [File    |-> "ok",
                  Address |-> "http://localhost:4646",
                  Outputs |-> [n \in AllOutputNames |-> StdoutOut],
                  Routes  |-> rs] : rs \in {<<>>, IntegrationRoutes, ErrorRoutes} }
    /\ loadErr = "none"
    /\ router = NoRouter
    /\ routeEv = NoEvent
    /\ routed = NoRouted
    /\ rpc = "cfg"
    /\ ServiceIdle
    /\ IngestIdle
    /\ SinkIdle

\* one more route is written into the configuration's routes section
WriteRoute(filters, outputs, continues) ==
    /\ rpc = "cfg"
    /\ CountNodes(cfg.Routes) < MaxNodes
    /\ \E f \in filters, o \in outputs, c \in continues,
          d \in 1..(SpineDepth(cfg.Routes) + 1) :
          cfg' = [cfg EXCEPT !.Routes = AppendAtDepth(@, d, Route(f, o, c, <<>>))]
    /\ UNCHANGED <<loadErr, router, routeEv, routed, rpc>>
    /\ UNCHANGED <<svcVars, ingestVars, sinkVars>>

NewRouterStep(from) ==
    /\ rpc = from
    /\ LET r == NewRouter(cfg.Routes) IN
         /\ router' = r.router
         /\ rpc' = IF r.err = "nil" THEN "compiled" ELSE "compileErr"
    /\ UNCHANGED <<cfg, loadErr, routeEv, routed>>
    /\ UNCHANGED <<svcVars, ingestVars, sinkVars>>

RouteStep ==
    /\ rpc = "compiled"
    /\ \E e \in RouteEvents :
         /\ routeEv' = e
         /\ routed' = RouterRoute(router, e)
    /\ rpc' = "routed"
    /\ UNCHANGED <<cfg, loadErr, router>>
    /\ UNCHANGED <<svcVars, ingestVars, sinkVars>>

NextRoute ==
    \/ WriteRoute(EnumFilters, EnumOutputs, EnumContinue)
    \/ NewRouterStep("cfg")
    \/ RouteStep

SpecRoute == InitRoute /\ [][NextRoute]_vars

----------------------------------------------------------------------------
\* The configuration specification: a configuration file is written, loaded,
\* its routes compiled and one event routed.

CfgFilters == {FJob, FLong}
CfgOutputs == {"", "a", "ghost"}
CfgContinue == {ContinueNil}

CfgOutputMaps ==
    { [n \in {} |-> StdoutOut],
      [n \in {"a"} |-> StdoutOut],
      [n \in {"a"} |-> OutputCfg("", FALSE, 0, "")],
      [n \in {"a", "b"} |-> StdoutOut] }

InitConfig ==
    /\ cfg \in { [File |-> f, Address |-> a, Outputs |-> o, Routes |-> <<>>] :
                   f \in {"ok", "unreadable", "malformed"},
                   a \in {"", "http://localhost:4646"},
                   o \in CfgOutputMaps }
    /\ loadErr = "none"
    /\ router = NoRouter
    /\ routeEv = NoEvent
    /\ routed = NoRouted
    /\ rpc = "cfg"
    /\ ServiceIdle
    /\ IngestIdle
    /\ SinkIdle

LoadConfigStep ==
    /\ rpc = "cfg"
    /\ loadErr' = LoadConfig(cfg)
    /\ rpc' = IF loadErr' = "nil" THEN "loaded" ELSE "rejected"
    /\ UNCHANGED <<cfg, router, routeEv, routed>>
    /\ UNCHANGED <<svcVars, ingestVars, sinkVars>>

NextConfig ==
    \/ WriteRoute(CfgFilters, CfgOutputs, CfgContinue)
    \/ LoadConfigStep
    \/ NewRouterStep("loaded")
    \/ RouteStep

SpecConfig == InitConfig /\ [][NextConfig]_vars

----------------------------------------------------------------------------
\* The Slack sink specification: a slack output is configured, constructed
\* and sent one event.

\* the block descriptors of an enumerated configuration
EnumBlocks ==
    { BlockConfig("header", "string", <<>>),
      BlockConfig("header", "map", <<>>),
      BlockConfig("divider", "nil", <<>>),
      BlockConfig("section", "number", <<>>),
      BlockConfig("context", "nil", <<"text", "malformed">>),
      BlockConfig("actions", "nil", <<"malformed">>),
      BlockConfig("invalid_block_type", "string", <<>>) }

RECURSIVE SeqsUpTo(_, _)
SeqsUpTo(S, n) ==
    IF n = 0 THEN {<<>>}
    ELSE LET shorter == SeqsUpTo(S, n - 1) IN
           shorter \cup { Append(q, x) : q \in shorter, x \in S }

SlackEvents == {EvNodeReg, EvJobReg}

InitSlack ==
    /\ RouteIdle
    /\ ServiceIdle
    /\ IngestIdle
    /\ tmpl = NoTmpl
    /\ rng = NoRng
    /\ \E channel \in {"", "#test"}, text \in {"", "Job event: {{ .Type }}"},
          blocks \in SeqsUpTo(EnumBlocks, MaxBlocks) :
          slack = [NoSlack EXCEPT !.pc = "config",
                                  !.config = SlackConfig(channel, text, blocks)]

\* the manager constructs the output from its properties
NewSlackOutputStep ==
    /\ slack.pc = "config"
    /\ slack' = [slack EXCEPT !.pc = "ready", !.output = NewSlackOutput(slack.config)]
    /\ UNCHANGED <<routeVars, svcVars, ingestVars, tmpl, rng>>

\* SlackOutput.Send for one event: format, marshal, post, check the status
SlackSendStep ==
    /\ slack.pc = "ready"
    /\ \E event \in SlackEvents, post \in PostOutcomes :
         slack' = [slack EXCEPT !.pc = "returned",
                                !.event = event,
                                !.posted = Append(@, SendMessage(slack.output, event)),
                                !.ret = SendResult(post)]
    /\ UNCHANGED <<routeVars, svcVars, ingestVars, tmpl, rng>>

NextSlack ==
    \/ NewSlackOutputStep
    \/ SlackSendStep

SpecSlack == InitSlack /\ [][NextSlack]_vars

----------------------------------------------------------------------------
\* The template specification: one template string is rendered by
\* Engine.ProcessText (against an event) or Engine.ProcessTextWithData
\* (against the context of a range element).

InitTemplate ==
    /\ RouteIdle
    /\ ServiceIdle
    /\ IngestIdle
    /\ slack = NoSlack
    /\ rng = NoRng
    /\ \E text \in SeqsUpTo(TemplatePieces, MaxPieces) :
          tmpl = [NoTmpl EXCEPT !.pc = "ready", !.text = text]

\* Engine.ProcessText
ProcessTextStep ==
    /\ tmpl.pc = "ready"
    /\ \E event \in SlackEvents :
         LET eventData == createTemplateData(event)
             r == processText(tmpl.text, eventData)
         IN tmpl' = [tmpl EXCEPT !.pc = "returned", !.data = eventData,
                                 !.out = r.out, !.err = r.err]
    /\ UNCHANGED <<routeVars, svcVars, ingestVars, slack, rng>>

\* Engine.ProcessTextWithData
ProcessTextWithDataStep ==
    /\ tmpl.pc = "ready"
    /\ \E item \in {ServiceWeb, ServiceName} :
         LET eventData == createItemContext(RangeData(<<item>>), item)
             r == processText(tmpl.text, eventData)
         IN tmpl' = [tmpl EXCEPT !.pc = "returned", !.data = eventData,
                                 !.out = r.out, !.err = r.err]
    /\ UNCHANGED <<routeVars, svcVars, ingestVars, slack, rng>>

NextTemplate ==
    \/ ProcessTextStep
    \/ ProcessTextWithDataStep

SpecTemplate == InitTemplate /\ [][NextTemplate]_vars

----------------------------------------------------------------------------
\* The range specification: one list of descriptors (the fields of a section,
\* the elements of a context or an actions block, the options of a select, or
\* the configured blocks of the output) is processed against an event whose
\* payload holds a list of services.

RangeLists == {"fields", "context", "actions", "options", "blocks"}

\* the descriptors of an enumerated list: static ones, ones carrying a range
\* (with and without a condition, on a list, on a missing path and on a
\* string) and one whose text is a number
EnumItems(list) ==
    LET type == CASE list = "actions" -> "button"
                  [] list = "blocks" -> "header"
                  [] OTHER -> "mrkdwn"
    IN { MapVal("", "", type, StrVal(<<PieceText>>)),
         MapVal(".Payload.Services", "", type, StrVal(<<PieceName>>)),
         MapVal(".Payload.Services", "Status == running", type, StrVal(<<PieceName>>)),
         MapVal(".Payload.Services", "", type, NumVal),
         MapVal(".Payload.NonExistentServices", "", type, StrVal(<<PieceName>>)),
         MapVal(".Payload.ServiceCount", "", type, StrVal(<<PieceName>>)) }
       \cup (IF list = "blocks" THEN {} ELSE {NumVal})

InitRange ==
    /\ RouteIdle
    /\ ServiceIdle
    /\ IngestIdle
    /\ slack = NoSlack
    /\ tmpl = NoTmpl
    /\ \E list \in RangeLists :
       \E items \in SeqsUpTo(EnumItems(list), MaxItems),
          services \in SeqsUpTo({ServiceWeb, ServiceApi, ServiceName}, MaxList) :
          rng = [NoRng EXCEPT !.pc = "ready", !.list = list, !.items = items,
                              !.data = RangeData(services)]

\* createSectionBlock's processFields call
ProcessFieldsStep ==
    /\ rng.pc = "ready" /\ rng.list = "fields"
    /\ rng' = [rng EXCEPT !.pc = "returned", !.err = "nil",
                          !.out = processFields(rng.items, rng.data)]
    /\ UNCHANGED <<routeVars, svcVars, ingestVars, slack, tmpl>>

\* createContextBlock's processContextElements call
ProcessContextElementsStep ==
    /\ rng.pc = "ready" /\ rng.list = "context"
    /\ rng' = [rng EXCEPT !.pc = "returned", !.err = "nil",
                          !.out = processContextElements(rng.items, rng.data)]
    /\ UNCHANGED <<routeVars, svcVars, ingestVars, slack, tmpl>>

\* createActionBlock's processActionElements call
ProcessActionElementsStep ==
    /\ rng.pc = "ready" /\ rng.list = "actions"
    /\ rng' = [rng EXCEPT !.pc = "returned", !.err = "nil",
                          !.out = processActionElements(rng.items, rng.data)]
    /\ UNCHANGED <<routeVars, svcVars, ingestVars, slack, tmpl>>

\* createStaticSelectElement's processSelectOptions call
ProcessSelectOptionsStep ==
    /\ rng.pc = "ready" /\ rng.list = "options"
    /\ rng' = [rng EXCEPT !.pc = "returned", !.err = "nil",
                          !.out = processSelectOptions(rng.items, rng.data)]
    /\ UNCHANGED <<routeVars, svcVars, ingestVars, slack, tmpl>>

\* NewSlackOutput on the blocks list and ProcessBlocks on its result
ProcessBlocksStep ==
    /\ rng.pc = "ready" /\ rng.list = "blocks"
    /\ LET r == processConfiguredBlocks(rng.items) IN
         rng' = [rng EXCEPT !.pc = "returned", !.err = r.err, !.out = r.items]
    /\ UNCHANGED <<routeVars, svcVars, ingestVars, slack, tmpl>>

NextRange ==
    \/ ProcessFieldsStep
    \/ ProcessContextElementsStep
    \/ ProcessActionElementsStep
    \/ ProcessSelectOptionsStep
    \/ ProcessBlocksStep

SpecRange == InitRange /\ [][NextRange]_vars

----------------------------------------------------------------------------
\* The condition specification: one list of descriptors carrying range and
\* condition keys is expanded against an event whose payload holds a list of
\* services.

ServiceApiStopped == [isMap |-> TRUE, m |-> [Name |-> "api", Status |-> "stopped"]]
ServiceWorker == [isMap |-> TRUE, m |-> [Name |-> "worker", Status |-> "running"]]

\* the services of TestSlackOutputWithConditionalRangeItems
ConditionalServices ==
    <<ServiceWeb, ServiceApiStopped, ServiceWorker>>

\* its field descriptor
ConditionalField ==
    MapVal(".Payload.Services", CondRunning, "mrkdwn", StrVal(<<PieceName>>))

\* the descriptors of an enumerated list: ranges and static descriptors with
\* conditions that are true, false, raise when evaluated or do not compile
EnumConditionalItems(list) ==
    LET type == CASE list = "actions" -> "button"
                  [] list = "blocks" -> "header"
                  [] OTHER -> "mrkdwn"
    IN { MapVal(range, condition, type, StrVal(<<PieceName>>)) :
            range \in {"", ".Payload.Services"},
            condition \in {"", CondRunning, CondJob, CondInvalid} }

InitCondition ==
    /\ RouteIdle
    /\ ServiceIdle
    /\ IngestIdle
    /\ slack = NoSlack
    /\ tmpl = NoTmpl
    /\ \E list \in RangeLists :
       \E items \in SeqsUpTo(EnumConditionalItems(list), MaxItems),
          services \in SeqsUpTo({ServiceWeb, ServiceApi, ServiceName}, MaxList)
                       \cup {ConditionalServices} :
          rng = [NoRng EXCEPT !.pc = "ready", !.list = list, !.items = items,
                              !.data = RangeData(services)]

\* the expansion of the list
ExpandDescriptorsStep ==
    /\ rng.pc = "ready"
    /\ rng' = [rng EXCEPT !.pc = "returned", !.err = "nil",
                          !.out = expandDescriptors(rng.list, rng.items, 1, rng.data)]
    /\ UNCHANGED <<routeVars, svcVars, ingestVars, slack, tmpl>>

NextCondition ==
    ExpandDescriptorsStep

SpecCondition == InitCondition /\ [][NextCondition]_vars

----------------------------------------------------------------------------
\* The guards specification: a route tree with filters that raise is compiled
\* and routes one event, and a list of descriptors with conditions that raise
\* or do not compile is expanded.

InitGuards ==
    /\ cfg \in { [File    |-> "ok",
                  Address |-> "http://localhost:4646",
                  Outputs |-> [n \in AllOutputNames |-> StdoutOut],
                  Routes  |-> rs] : rs \in {IntegrationRoutes, ErrorRoutes} }
    /\ loadErr = "none"
    /\ router = NoRouter
    /\ routeEv = NoEvent
    /\ routed = NoRouted
    /\ rpc = "cfg"
    /\ ServiceIdle
    /\ IngestIdle
    /\ slack = NoSlack
    /\ tmpl = NoTmpl
    /\ \E list \in RangeLists :
       \E items \in SeqsUpTo(EnumConditionalItems(list), MaxItems),
          services \in {<<>>, <<ServiceWeb, ServiceName>>, ConditionalServices} :
          rng = [NoRng EXCEPT !.pc = "ready", !.list = list, !.items = items,
                              !.data = RangeData(services)]

NextGuards ==
    \/ NewRouterStep("cfg")
    \/ RouteStep
    \/ ExpandDescriptorsStep

SpecGuards == InitGuards /\ [][NextGuards]_vars

-----------------------------------------------------------------------------
\* The shutdown of main: the signal loop with both workers running.  A
\* goroutine panic ends the process, so main's wait is over with it.

\* processEvents receives one event and handles it before the next select
DispatchEventStep ==
    /\ disp.pc = "select"
    /\ eventChan # <<>>
    /\ eventChan' = Tail(eventChan)
    /\ UNCHANGED <<es, up, produced>>
    /\ IngestFrame /\ UNCHANGED routeVars

\* go func() { wg.Wait(); close(done) }() and select: case <-done: return
MainDoneStep ==
    /\ sig.pc = "exit"
    /\ es.pc = "returned"
    /\ disp.pc = "returned"
    /\ sig' = [sig EXCEPT !.pc = "returned", !.err = "graceful"]
    /\ UNCHANGED <<smRouter, smOutputManager, installed, reloads, eventChan,
                   produced, chanClosed, ctxDone, disp, calls, nextCall, log>>
    /\ UNCHANGED <<routeVars, ingestVars, sinkVars>>

\* select: case <-time.After(30 * time.Second): return
MainTimeoutStep ==
    /\ sig.pc = "exit"
    /\ es.pc # "panic"
    /\ sig' = [sig EXCEPT !.pc = "returned", !.err = "timeout"]
    /\ UNCHANGED <<smRouter, smOutputManager, installed, reloads, eventChan,
                   produced, chanClosed, ctxDone, disp, calls, nextCall, log>>
    /\ UNCHANGED <<routeVars, ingestVars, sinkVars>>

NextShutdown ==
    \/ StreamLoopStep
    \/ ConnectStep
    \/ ConnectFailStep
    \/ ConnectCtxStep
    \/ InnerWaitCtxStep
    \/ InnerWaitTimerStep
    \/ OuterWaitCtxStep
    \/ OuterWaitTimerStep
    \/ StreamCtxStep
    \/ RecvFrameStep
    \/ RecvClosedStep
    \/ EventStep
    \/ SendEventStep
    \/ SendCtxStep
    \/ UpstreamBatchStep
    \/ UpstreamErrorStep
    \/ UpstreamCloseStep
    \/ DispatchEventStep
    \/ DispatchCtxDoneStep
    \/ DispatchChanClosedStep
    \/ SighupStep
    \/ ReloadLoadStep
    \/ ReloadNewRouterStep
    \/ ReloadNewManagerStep
    \/ ReloadSwapStep
    \/ ShutdownCancelStep
    \/ ShutdownCloseStep
    \/ MainDoneStep
    \/ MainTimeoutStep

\* The ingest goroutine and main are scheduled whenever they can step and
\* the 30-second timer fires; the dispatcher may stay inside a send for ever.
FairShutdown ==
    /\ FairIngest
    /\ WF_vars(ShutdownCloseStep)
    /\ WF_vars(MainDoneStep)
    /\ WF_vars(MainTimeoutStep)

SpecShutdown == InitIngest /\ [][NextShutdown]_vars /\ FairShutdown

-----------------------------------------------------------------------------
\* Reloads while the stream runs: the ingest goroutine, the signal loop
\* handling SIGHUP and the dispatcher, with no shutdown signal.

NextReload ==
    \/ StreamLoopStep
    \/ ConnectStep
    \/ ConnectFailStep
    \/ InnerWaitTimerStep
    \/ RecvFrameStep
    \/ EventStep
    \/ SendEventStep
    \/ UpstreamBatchStep
    \/ SighupStep
    \/ ReloadLoadStep
    \/ ReloadNewRouterStep
    \/ ReloadNewManagerStep
    \/ ReloadSwapStep
    \/ DispatchRecvStep
    \/ RouteSnapshotStep
    \/ RouteReturnStep
    \/ SendCallStep
    \/ SendNotFoundStep
    \/ SendNoAttemptStep
    \/ SendAttemptStep

SpecReload == InitIngest /\ [][NextReload]_vars

-----------------------------------------------------------------------------
\* The start of main: NewServiceManager's initial load, the workers started
\* after it, then reloads while the service runs.

\* the configuration files main may find at its start
StartFiles == {FileA} \cup ServiceFiles

\* main before NewServiceManager: no pointer is set and no goroutine runs
InitStartup ==
    /\ RouteIdle
    /\ smRouter = NoRouter
    /\ smOutputManager = NoManager
    /\ installed = <<>>
    /\ sig = [SigIdle("none") EXCEPT !.pc = "new"]
    /\ reloads = 0
    /\ eventChan = <<>>
    /\ produced = 0
    /\ chanClosed = FALSE
    /\ ctxDone = FALSE
    /\ disp = [DSelect EXCEPT !.pc = "notstarted"]
    /\ calls = {}
    /\ nextCall = 1
    /\ log = <<>>
    /\ es = [NewEventStream EXCEPT !.pc = "notstarted"]
    /\ up = NoUpstream
    /\ SinkIdle

\* NewServiceManager: sm.reloadConfig() with no other goroutine running; on
\* an error nil is returned and main exits
NewServiceManagerStep ==
    /\ sig.pc = "new"
    /\ \E file \in StartFiles :
         LET err == LoadConfig(file)
             r   == NewRouter(file.Routes)
             m   == NewManager(file.Outputs)
         IN
         IF err # "nil" \/ r.err # "nil" \/ m.err # "nil"
         THEN /\ sig' = [SigIdle("failed to load initial configuration")
                            EXCEPT !.pc = "exited"]
              /\ UNCHANGED <<smRouter, smOutputManager, installed>>
         ELSE /\ smRouter' = [r.router EXCEPT !.gen = 1]
              /\ smOutputManager' = [gen |-> 1, outputs |-> m.outputs]
              /\ installed' = << <<smRouter', smOutputManager'>> >>
              /\ sig' = [SigIdle("nil") EXCEPT !.pc = "created"]
    /\ UNCHANGED <<reloads, eventChan, produced, chanClosed, ctxDone, disp, calls,
                   nextCall, log>>
    /\ UNCHANGED <<routeVars, ingestVars, sinkVars>>

\* main: signal.Notify, make(chan), go eventStream.Stream, go processEvents
StartWorkersStep ==
    /\ sig.pc = "created"
    /\ sig' = SigIdle("nil")
    /\ es' = [es EXCEPT !.pc = "stream"]
    /\ disp' = DSelect
    /\ UNCHANGED <<smRouter, smOutputManager, installed, reloads, eventChan,
                   produced, chanClosed, ctxDone, calls, nextCall, log, up>>
    /\ UNCHANGED <<routeVars, sinkVars>>

NextStartup ==
    \/ NewServiceManagerStep
    \/ StartWorkersStep
    \/ StreamLoopStep
    \/ ConnectStep
    \/ ConnectFailStep
    \/ InnerWaitTimerStep
    \/ RecvFrameStep
    \/ EventStep
    \/ SendEventStep
    \/ UpstreamBatchStep
    \/ SighupStep
    \/ ReloadLoadStep
    \/ ReloadNewRouterStep
    \/ ReloadNewManagerStep
    \/ ReloadSwapStep
    \/ DispatchRecvStep
    \/ RouteSnapshotStep
    \/ RouteReturnStep
    \/ SendCallStep
    \/ SendNotFoundStep
    \/ SendNoAttemptStep
    \/ SendAttemptStep

SpecStartup == InitStartup /\ [][NextStartup]_vars

-----------------------------------------------------------------------------
\* Range expansion and the maps it is handed.  Go maps are shared by
\* reference: the expansion below carries the outer data scope and the
\* descriptor through the loop as they are after each call, so that a write
\* into either would be seen by the next iteration, the next descriptor and
\* the next expansion.

\* createItemContext writing the element's keys into baseData itself
scopeAfterOverlayInPlace(baseData, item) ==
    createItemContext(baseData, item)

\* createItemContext: context := make(map); every write goes to context, so
\* baseData is after the call what it was before
scopeAfterItemContext(baseData, item) ==
    baseData

\* createTemplateItem deleting the range key of the descriptor itself
descriptorAfterDeleteRange(rangeItem) ==
    createTemplateItem(rangeItem)

\* createTemplateItem: templateItem := make(map); the descriptor is only read
descriptorAfterTemplateItem(rangeItem) ==
    rangeItem

\* expandRangeItem's loop with the scope and the descriptor carried along
RECURSIVE expandRangeLoopShared(_, _, _, _, _, _)
expandRangeLoopShared(list, rangeItem, rangeSlice, k, eventData, results) ==
    IF k > Len(rangeSlice)
    THEN [results |-> results, err |-> "nil", eventData |-> eventData,
          rangeItem |-> rangeItem]
    ELSE LET itemContext == createItemContext(eventData, rangeSlice[k])
             templateItem == createTemplateItem(rangeItem)
             p == itemProcessor(list, templateItem, itemContext)
         IN expandRangeLoopShared(list, descriptorAfterTemplateItem(rangeItem),
                                  rangeSlice, k + 1,
                                  scopeAfterItemContext(eventData, rangeSlice[k]),
                                  IF p.err = "nil" THEN Append(results, p.item)
                                  ELSE results)

\* expandRangeItem with the scope and the descriptor as it leaves them
expandRangeItemShared(list, rangeItem, rangePath, eventData) ==
    LET rangeData == getNestedValue(eventData, SplitPath(rangePath)) IN
      IF rangeData.err # "nil"
      THEN [results |-> <<>>, err |-> rangeData.err, eventData |-> eventData,
            rangeItem |-> rangeItem]
      ELSE LET rangeSlice == convertToSlice(rangeData.value) IN
             IF rangeSlice.isNil
             THEN [results |-> <<>>, err |-> "range data is not iterable",
                   eventData |-> eventData, rangeItem |-> rangeItem]
             ELSE expandRangeLoopShared(list, rangeItem, rangeSlice.slice, 1,
                                        eventData, <<>>)

\* a list element with a key the outer scope has as well
ServiceTyped == [isMap |-> TRUE, m |-> [Name |-> "web", Type |-> "service"]]

ScopeLists == {"fields", "context", "actions", "options"}

\* static descriptors and range descriptors whose text reads Type (a key of
\* the outer scope) and Name (a key of the elements only)
EnumScopeItems(list) ==
    LET type == IF list = "actions" THEN "button" ELSE "mrkdwn"
    IN { MapVal("", "", type, StrVal(<<PieceType, PieceName>>)),
         MapVal(".Payload.Services", "", type, StrVal(<<PieceType, PieceName>>)),
         MapVal(".Payload.Services", "", type, StrVal(<<PieceName>>)),
         MapVal(".Payload.NonExistentServices", "", type, StrVal(<<PieceName>>)) }

\* the descriptors of one list and the data of one event, before anything is
\* expanded; given keeps both as they were handed over
InitScope ==
    /\ RouteIdle
    /\ ServiceIdle
    /\ IngestIdle
    /\ slack = NoSlack
    /\ tmpl = NoTmpl
    /\ \E list \in ScopeLists :
       \E items \in SeqsUpTo(EnumScopeItems(list), MaxItems),
          services \in SeqsUpTo({ServiceWeb, ServiceTyped, ServiceName}, MaxList) :
          /\ items # <<>>
          /\ rng = [pc |-> "ready", list |-> list, items |-> items,
                    data |-> RangeData(services), out |-> <<>>, err |-> "none",
                    given |-> [items |-> items, data |-> RangeData(services)],
                    runs |-> 0]

\* the descriptor the next expansion is of: the list is gone through twice
NextDescriptor == (rng.runs % Len(rng.items)) + 1

\* one descriptor of the list is processed against the event data: a range
\* descriptor is expanded
ExpandRangeItemStep ==
    /\ rng.pc = "ready"
    /\ rng.runs < 2 * Len(rng.items)
    /\ isRangeItem(rng.items[NextDescriptor])
    /\ LET i == NextDescriptor
           x == expandRangeItemShared(rng.list, rng.items[i], rng.items[i].Range, rng.data)
       IN rng' = [rng EXCEPT !.runs = @ + 1,
                            !.data = x.eventData,
                            !.items[i] = x.rangeItem,
                            !.out = Append(@, [from |-> i, results |-> x.results,
                                               err |-> x.err])]
    /\ UNCHANGED <<routeVars, svcVars, ingestVars, slack, tmpl>>

\* one descriptor of the list is processed against the event data: a static
\* descriptor yields its one item
StaticItemStep ==
    /\ rng.pc = "ready"
    /\ rng.runs < 2 * Len(rng.items)
    /\ ~isRangeItem(rng.items[NextDescriptor])
    /\ LET i == NextDescriptor
           p == itemProcessor(rng.list, rng.items[i], rng.data)
       IN rng' = [rng EXCEPT !.runs = @ + 1,
                            !.out = Append(@, [from |-> i,
                                               results |-> IF p.err = "nil" THEN <<p.item>>
                                                           ELSE <<>>,
                                               err |-> p.err])]
    /\ UNCHANGED <<routeVars, svcVars, ingestVars, slack, tmpl>>

NextScope ==
    \/ ExpandRangeItemStep
    \/ StaticItemStep

SpecScope == InitScope /\ [][NextScope]_vars

----------------------------------------------------------------------------
\* Claims about the route tree.

\* a route matches when its filter evaluates, without error, to true
Matches(node, ctx) ==
    LET r == Eval(node.filter, ctx) IN ~r.err /\ r.val = "True"

\* the index paths of all nodes of a route tree
RECURSIVE NodePaths(_)
NodePaths(nodes) ==
    UNION { {<<i>>} \cup { <<i>> \o p : p \in NodePaths(nodes[i].children) }
            : i \in 1..Len(nodes) }

RECURSIVE NodeAt(_, _)
NodeAt(nodes, p) ==
    IF Len(p) = 1 THEN nodes[p[1]] ELSE NodeAt(nodes[p[1]].children, Tail(p))

\* the node at p is evaluated: all its ancestors match, and at no level of the
\* path an earlier sibling matched with continue = false
RECURSIVE Visited(_, _, _)
Visited(nodes, p, ctx) ==
    /\ \A s \in 1..(Head(p) - 1) : ~(Matches(nodes[s], ctx) /\ ~nodes[s].shouldContinue)
    /\ Len(p) > 1 =>
         /\ Matches(nodes[Head(p)], ctx)
         /\ Visited(nodes[Head(p)].children, Tail(p), ctx)

Contributes(nodes, p, ctx) ==
    /\ Visited(nodes, p, ctx)
    /\ Matches(NodeAt(nodes, p), ctx)
    /\ NodeAt(nodes, p).output # ""

\* p comes before q in depth-first pre-order
PathBefore(p, q) ==
    /\ p # q
    /\ \/ Len(p) < Len(q) /\ SubSeq(q, 1, Len(p)) = p
       \/ \E k \in 1..Len(p) :
            /\ k <= Len(q)
            /\ SubSeq(p, 1, k - 1) = SubSeq(q, 1, k - 1)
            /\ p[k] < q[k]

RECURSIVE InPreOrder(_)
InPreOrder(ps) ==
    IF ps = {} THEN <<>>
    ELSE LET first == CHOOSE p \in ps : \A q \in ps \ {p} : PathBefore(p, q)
         IN <<first>> \o InPreOrder(ps \ {first})

ExpectedOutputs(nodes, ctx) ==
    LET order == InPreOrder({ p \in NodePaths(nodes) : Contributes(nodes, p, ctx) })
    IN [ k \in 1..Len(order) |-> NodeAt(nodes, order[k]).output ]

\* C1: Route returns exactly the sink ids of the nodes whose own filter and all
\* ancestors' filters are true and that no earlier sibling with continue=false
\* cut off, in depth-first pre-order, one entry per such node with a sink id.
C1_RoutePreOrder ==
    rpc = "routed" =>
        routed.outputs = ExpectedOutputs(router.routes, EvalContext(routeEv))

C1_Witness ==
    /\ rpc = "routed"
    /\ router.routes = buildRouteNodes(IntegrationRoutes)
    /\ routeEv = EvNodeReg
    /\ routed.outputs = <<"node_events", "job_events", "all_events">>

\* every sibling list of a route tree
RECURSIVE SiblingLists(_)
SiblingLists(nodes) ==
    {nodes} \cup UNION { SiblingLists(nodes[i].children) : i \in 1..Len(nodes) }

OwnOutput(node) == IF node.output # "" THEN <<node.output>> ELSE <<>>

\* the first route of the list that matches with continue = false
StopsAt(nodes, i, ctx) ==
    /\ Matches(nodes[i], ctx) /\ ~nodes[i].shouldContinue
    /\ \A s \in 1..(i - 1) : ~(Matches(nodes[s], ctx) /\ ~nodes[s].shouldContinue)

\* what the list yields when route i stops it: the earlier siblings' results,
\* then route i's own sink id and its children's results, and nothing after
ResultCutAt(nodes, i, ctx) ==
    processRoutes(SubSeq(nodes, 1, i - 1), ctx).outputs
        \o OwnOutput(nodes[i])
        \o processRoutes(nodes[i].children, ctx).outputs

\* C2: when a rule with continue=false matches, its own sink id and its
\* children's results are appended and no later sibling at that level
\* contributes; the Job/JobRegistered event of the integration tree yields
\* exactly its JobRegistered child's sink.
C2_ContinueFalseStopsSiblings ==
    rpc = "routed" =>
      LET ctx == EvalContext(routeEv) IN
      /\ \A i \in 1..Len(router.routes) :
           StopsAt(router.routes, i, ctx) =>
               routed.outputs = ResultCutAt(router.routes, i, ctx)
      /\ \A nodes \in SiblingLists(router.routes) : \A i \in 1..Len(nodes) :
           StopsAt(nodes, i, ctx) =>
               processRoutes(nodes, ctx).outputs = ResultCutAt(nodes, i, ctx)
      /\ (router.routes = buildRouteNodes(IntegrationRoutes) /\ routeEv = EvJobReg)
           => routed.outputs = <<"job_events">>

C2_Witness ==
    /\ rpc = "routed"
    /\ router.routes = buildRouteNodes(IntegrationRoutes)
    /\ routeEv = EvJobReg
    /\ StopsAt(router.routes, 2, EvalContext(routeEv))
    /\ routed.outputs = <<"job_events">>

\* the route tree without the routes whose filter raises an error (and without
\* their subtrees)
RECURSIVE PruneErrors(_, _)
PruneErrors(nodes, ctx) ==
    IF nodes = <<>> THEN <<>>
    ELSE IF Eval(Head(nodes).filter, ctx).err
         THEN PruneErrors(Tail(nodes), ctx)
         ELSE << [Head(nodes) EXCEPT !.children = PruneErrors(@, ctx)] >>
                  \o PruneErrors(Tail(nodes), ctx)

\* C3: Route never returns an error; a node whose filter evaluation raises an
\* error contributes nothing, its children are not visited, and all other
\* routes are evaluated as if the failing node were not there.
C3_EvalErrorIsNoMatch ==
    rpc = "routed" =>
      LET ctx == EvalContext(routeEv) IN
      /\ routed.err = "nil"
      /\ routed.outputs = ExpectedOutputs(PruneErrors(router.routes, ctx), ctx)

C3_Witness ==
    /\ rpc = "routed"
    /\ router.routes = buildRouteNodes(ErrorRoutes)
    /\ routeEv = EvNodeReg
    /\ Eval(router.routes[1].children[1].filter, EvalContext(routeEv)).err
    /\ Eval(router.routes[2].filter, EvalContext(routeEv)).err
    /\ routed.outputs = <<"b", "all_events">>

\* C4: every sink id Route returns under a configuration LoadConfig accepted
\* is a key of that configuration's outputs map, at every nesting depth.
C4_RoutedSinksDeclared ==
    (rpc = "routed" /\ loadErr = "nil") =>
        \A k \in 1..Len(routed.outputs) : routed.outputs[k] \in DOMAIN cfg.Outputs

C4_Witness ==
    /\ rpc = "routed" /\ loadErr = "nil"
    /\ Len(router.routes) >= 1
    /\ Len(router.routes[1].children) >= 1
    /\ routed.outputs = << router.routes[1].output, router.routes[1].children[1].output >>
    /\ router.routes[1].children[1].output \in DOMAIN cfg.Outputs

----------------------------------------------------------------------------
\* Claims about the dispatcher and the reload.

IsPrefix(s, t) == Len(s) <= Len(t) /\ SubSeq(t, 1, Len(s)) = s

\* the sinks Send was called with for event n, in call order
RECURSIVE SinksSent(_, _)
SinksSent(entries, n) ==
    IF entries = <<>> THEN <<>>
    ELSE IF Head(entries).kind = "send" /\ Head(entries).seq = n
         THEN <<Head(entries).sink>> \o SinksSent(Tail(entries), n)
         ELSE SinksSent(Tail(entries), n)

\* the dispatcher is done with event n
EventDone(n) ==
    \/ disp.seq > n
    \/ disp.seq = n /\ disp.pc \in {"select", "returned"}

\* C5: for each event the dispatcher calls Send once for every sink id Route
\* returned, in the returned order, whatever the earlier Sends returned; a Send
\* error skips no later sink and no later event, and the loop is left only on
\* cancellation or a closed channel.
C5_EverySinkSentDespiteErrors ==
    /\ \A k \in 1..Len(log) :
         log[k].kind = "routed" =>
           /\ IsPrefix(SinksSent(log, log[k].seq), log[k].outputs)
           /\ EventDone(log[k].seq) => SinksSent(log, log[k].seq) = log[k].outputs
    /\ \A n \in 1..produced :
         EventDone(n) => \E k \in 1..Len(log) : log[k].kind = "routed" /\ log[k].seq = n
    /\ disp.pc = "returned" => (ctxDone \/ chanClosed)

C5_Witness ==
    /\ disp.seq = 2 /\ disp.pc = "sending"
    /\ \E i, j \in 1..Len(log) :
         /\ i < j
         /\ log[i].kind = "return" /\ log[i].err # "nil" /\ log[i].seq = 1
         /\ log[j].kind = "send" /\ log[j].seq = 1

\* C6: the Sends are strictly sequential: a Send, with all its retry attempts,
\* has returned before the next one starts, so at most one is in progress and
\* every sink sees the events in the order they were taken from the channel.
C6_SendsSequentialInOrder ==
    /\ Cardinality(calls) <= 1
    /\ \A c \in calls : disp.pc = "sending" /\ disp.wait = c.id /\ disp.seq = c.seq
    /\ \A i, j \in 1..Len(log) :
         (i < j /\ log[i].kind = "send" /\ log[j].kind = "send") =>
           /\ log[i].seq <= log[j].seq
           /\ \E r \in (i + 1)..(j - 1) :
                /\ log[r].kind = "return"
                /\ log[r].seq = log[i].seq /\ log[r].sink = log[i].sink

C6_Witness ==
    \E i, r, j \in 1..Len(log) :
        /\ i < r /\ r < j
        /\ log[i].kind = "send" /\ log[i].sink = "a" /\ log[i].seq = 1
        /\ log[r].kind = "return" /\ log[r].sink = "a" /\ log[r].attempts = 2
        /\ log[j].kind = "send" /\ log[j].sink = "a" /\ log[j].seq = 2

LiveRouter == installed[Len(installed)][1]
LiveManager == installed[Len(installed)][2]

\* a reloadConfig call returns without having reached the swap
ReloadFails == sig.pc \in {"load", "router", "manager"} /\ sig'.pc = "wait"

\* C7: a reloadConfig that fails at any stage returns an error and leaves both
\* live pointers as the last successful load set them; the signal loop waits
\* for the next signal and later Route and Send calls snapshot those pointers.
C7_FailedReloadKeepsPointers ==
    [][ /\ ReloadFails =>
             /\ sig'.err \notin {"nil", "none"}
             /\ smRouter' = smRouter /\ smOutputManager' = smOutputManager
             /\ smRouter' = LiveRouter /\ smOutputManager' = LiveManager
             /\ installed' = installed
        /\ (sig.err \notin {"nil", "none"} /\ disp.pc = "route" /\ disp'.pc = "routing")
             => disp'.router = LiveRouter
        /\ (sig.err \notin {"nil", "none"} /\ disp.pc = "send" /\ disp'.pc = "sending")
             => \E c \in calls' : c.id = disp'.wait /\ c.manager = LiveManager
      ]_vars

C7_Witness ==
    /\ sig.pc = "wait"
    /\ sig.err = "failed to create output manager"
    /\ smRouter = FirstRouter /\ smOutputManager = FirstManager
    /\ disp.pc = "sending" /\ disp.router = FirstRouter
    /\ \E c \in calls : c.manager = FirstManager

\* C8: both pointers are replaced together; a Route or Send call that starts
\* after a successful reload uses the newest router / manager, and a call that
\* took its snapshot before the swap completes against that snapshot.
C8_ReloadSwapsBothCallsKeepSnapshot ==
    /\ smRouter = LiveRouter /\ smOutputManager = LiveManager
    /\ smRouter.gen = Len(installed) /\ smOutputManager.gen = Len(installed)
    /\ disp.pc = "routing" => disp.router = installed[disp.epoch][1]
    /\ disp.pc \in {"send", "sending"} =>
         disp.matched = RouterRoute(installed[disp.epoch][1], disp.ev).outputs
    /\ \A c \in calls : c.manager = installed[c.epoch][2]
    /\ \A k \in 1..Len(log) : log[k].gen = log[k].epoch

C8_Witness ==
    /\ Len(installed) = 2
    /\ smRouter.gen = 2 /\ smOutputManager.gen = 2
    /\ disp.pc = "sending" /\ disp.epoch = 1 /\ disp.router = FirstRouter
    /\ \E c \in calls : c.epoch = 2 /\ c.manager = smOutputManager

\* C9: each event is dispatched under one configuration snapshot: every Send
\* of an event uses the sink registry of the configuration whose route tree
\* produced the event's sink ids.
C9_OneSnapshotPerEvent ==
    \A i, j \in 1..Len(log) :
        (log[i].kind = "routed" /\ log[j].kind = "send" /\ log[i].seq = log[j].seq)
            => log[j].gen = log[i].gen

----------------------------------------------------------------------------
\* Claims about the ingest client, under SpecIngest.

\* the established stream has failed and the consumer has been told: the last
\* receive of connectAndStream took the error frame, or nil from the channel
\* the upstream closed
MidStreamFailureSeen == es.recv \in {"error", "closed"}

\* C10: whenever an established event stream fails mid-stream (the upstream
\* delivers an error frame or closes its event channel), the consumer leaves
\* the streaming state and reconnects from last_index: once the consumer has
\* received the failure it is no longer waiting on the failed stream.
C10_MidStreamFailureReconnects ==
    MidStreamFailureSeen => es.pc # "streaming"

LastSentIndex == IF es.sent = <<>> THEN 0 ELSE es.sent[Len(es.sent)].Index

\* C11: last_index is updated only for events actually delivered to out: it
\* equals the index of the most recent event placed on the channel (0 if
\* none), also after a send was abandoned because the context was cancelled
\* (the state between the assignment and its send is left out).
C11_LastIndexOnlyForDelivered ==
    es.pc # "send" => es.lastIndex = LastSentIndex

\* the events as the upstream sent them (without the Diff the client adds)
AsReceived(events) == [k \in 1..Len(events) |-> [events[k] EXCEPT !.Diff = NoDiff]]

ChanEvents == [k \in 1..Len(eventChan) |-> eventChan[k].ev]

IsSuffix(s, t) == Len(s) <= Len(t) /\ SubSeq(t, Len(t) - Len(s) + 1, Len(t)) = s

\* C12: while the context is not cancelled every event received from upstream
\* is placed on out exactly once and in arrival order (the events received are
\* those sent followed by the rest of the current batch, and the channel holds
\* the latest of the sent ones); when out is full the ingest loop waits and
\* drops nothing.
C12_EveryEventOnceInOrder ==
    /\ [](~ctxDone =>
            /\ es.received = AsReceived(es.sent) \o es.batch
            /\ IsSuffix(ChanEvents, es.sent)
            /\ Len(eventChan) <= ChanCap)
    /\ [][ (es.pc = "send" /\ Len(eventChan) >= ChanCap /\ ~ctxDone /\ ~ctxDone')
              => es' = es ]_vars

C12_Witness ==
    /\ ~ctxDone
    /\ es.pc = "send"
    /\ Len(eventChan) = ChanCap
    /\ Len(es.sent) >= ChanCap
    /\ Len(es.received) > Len(es.sent)

\* C13: when the side-call for a Job/JobRegistered event fails, the event is
\* still sent, with Diff = nil; the side-call is made once for the event; the
\* stream stays connected, last_index is set to the event's index and the
\* backoff and the retry count stay as they are.
C13_FailedSideCallIgnored ==
    /\ []((es.pc = "send" /\ es.sideCall \notin {"none", "diff"}) =>
            /\ es.nomadEvent = Head(es.batch)
            /\ es.nomadEvent.Diff = NoDiff
            /\ es.lastIndex = es.nomadEvent.Index)
    /\ [](\A i, j \in 1..Len(es.diffCalls) :
            i # j => es.diffCalls[i].Index # es.diffCalls[j].Index)
    /\ [][ (es.pc = "event" /\ es' # es) =>
              /\ es'.pc = "send"
              /\ es'.batch = es.batch
              /\ es'.retryBackoff = es.retryBackoff
              /\ es'.retries = es.retries
              /\ es'.startIndex = es.startIndex
              /\ es'.lastIndex = Head(es.batch).Index
              /\ Len(es'.diffCalls) <= Len(es.diffCalls) + 1
              /\ up' = up ]_vars

C13_Witness ==
    /\ ~ctxDone
    /\ es.pc = "streaming"
    /\ es.sideCall = "no job diffs available"
    /\ es.sent # <<>>
    /\ es.sent[Len(es.sent)] = UpstreamEvent(EvJobRegV2, es.lastIndex)
    /\ es.lastIndex = LastSentIndex

\* the side-call's preconditions, as the specification states them
SideCallDue(event) ==
    /\ event.Topic = "Job"
    /\ event.Type = "JobRegistered"
    /\ event.PayloadKey = "Job" /\ event.PayloadID # ""
    /\ event.Version > 1

\* C14: the side-call is issued only for a Job/JobRegistered event that
\* carries a Job.ID and a Job.Version above 1; for Version 1 and for every
\* other event no side-call is issued and Diff stays nil.
C14_SideCallOnlyForLaterVersions ==
    /\ \A k \in 1..Len(es.diffCalls) : SideCallDue(es.diffCalls[k])
    /\ \A k \in 1..Len(es.sent) :
         ~SideCallDue(es.sent[k]) =>
             /\ es.sent[k].Diff = NoDiff
             /\ \A c \in 1..Len(es.diffCalls) : es.diffCalls[c].Index # es.sent[k].Index
    /\ (es.pc = "send" /\ ~SideCallDue(Head(es.batch))) =>
             /\ es.sideCall = "none"
             /\ es.nomadEvent.Diff = NoDiff

C14_Witness ==
    /\ Len(es.sent) = 2
    /\ es.sent[1] = UpstreamEvent(EvJobReg, 1)
    /\ es.sent[2] = [UpstreamEvent(EvJobRegV2, 2) EXCEPT !.Diff = "diff"]
    /\ Len(es.diffCalls) = 1

\* C19: the event channel is closed only after ingest has stopped producing:
\* in no interleaving of the signal handler, the ingest worker and the
\* dispatcher is a send attempted on the closed channel.
C19_NoSendOnClosedChannel ==
    es.pc # "panic"

\* C20: after a shutdown signal the dispatcher processes every event still
\* buffered in the event channel before it exits: when processEvents has
\* returned, no event is left in the channel.
C20_DispatcherDrainsOnShutdown ==
    disp.pc = "returned" => eventChan = <<>>

----------------------------------------------------------------------------
\* Claims about the retry wrapper, under SpecRetry.

\* the "return" entries of the Sends to a sink wrapped by a RetryOutput
IsRetryReturn(e) ==
    /\ e.kind = "return"
    /\ e.sink \in DOMAIN smOutputManager.outputs
    /\ smOutputManager.outputs[e.sink].retry

MaxRetriesOf(sink) == smOutputManager.outputs[sink].maxRetries

\* C15: with max_attempts = m >= 1 and a sink that fails its first k < m calls
\* and then succeeds, one Send invokes the sink exactly k+1 times and returns
\* nil (one invocation when k = 0); nothing is invoked after the first success.
C15_RetryStopsAtFirstSuccess ==
    /\ \A k \in 1..Len(log) :
         (IsRetryReturn(log[k]) /\ MaxRetriesOf(log[k].sink) >= 1) =>
            /\ log[k].fails < MaxRetriesOf(log[k].sink) =>
                  /\ log[k].err = "nil"
                  /\ log[k].attempts = log[k].fails + 1
            /\ log[k].err = "nil" => log[k].attempts = log[k].fails + 1
    /\ \A c \in calls : c.attempt = c.fails

C15_Witness ==
    \E k \in 1..Len(log) :
        /\ IsRetryReturn(log[k])
        /\ MaxRetriesOf(log[k].sink) = 3
        /\ log[k].fails = 2 /\ log[k].attempts = 3 /\ log[k].err = "nil"

\* what C16 says of the Sends to a retry-wrapped sink whose max_attempts is
\* one of ms: a Send that returns an error has invoked the sink exactly
\* max_attempts times, all failing, and its error names max_attempts and
\* wraps the last invocation's error; a sink that failed max_attempts times
\* is not invoked again
ExhaustedAfter(ms) ==
    /\ \A k \in 1..Len(log) :
         (IsRetryReturn(log[k]) /\ MaxRetriesOf(log[k].sink) \in ms
            /\ log[k].err # "nil") =>
            /\ log[k].attempts = MaxRetriesOf(log[k].sink)
            /\ log[k].fails = MaxRetriesOf(log[k].sink)
            /\ log[k].err = RetryError(MaxRetriesOf(log[k].sink), SinkError)
    /\ \A c \in calls :
         (c.sink \in DOMAIN c.manager.outputs /\ c.manager.outputs[c.sink].retry
            /\ c.manager.outputs[c.sink].maxRetries \in ms)
            => c.fails < c.manager.outputs[c.sink].maxRetries

ExpansionOf ==
    ProcessBlocks(slack.config.blocks)

\* the formatted message has content: a block survived expansion, or a
\* top-level text template is configured
HasContent ==
    \/ ExpansionOf.err = "nil" /\ Len(ExpansionOf.blocks) > 0
    \/ slack.config.text # ""

\* C17: the Slack sink issues an HTTP request for an event only if the
\* formatted message has content (a block survived expansion, or a top-level
\* text template is configured); with no content, Send returns success
\* without issuing any request.  Stated for the Sends whose expansion did
\* not fail.
C17_RequestOnlyForContent ==
    (slack.pc = "returned" /\ ExpansionOf.err = "nil") =>
        /\ slack.posted # <<>> => HasContent
        /\ ~HasContent => (slack.posted = <<>> /\ slack.ret = "nil")

\* a descriptor whose expansion is to fail: its block type is unknown, or an
\* element configuration inside it is malformed
DescriptorFails(b) ==
    \/ b.Type \notin {"header", "divider", "section", "context", "actions", "image", "input"}
    \/ \E i \in 1..Len(b.Elements) : b.Elements[i] = "malformed"

\* C18: if expanding any configured block descriptor errors (unknown block
\* type, malformed element configuration inside a block), Send for that
\* event returns an error and posts no message.
C18_ExpansionErrorFailsSend ==
    (/\ slack.pc = "returned"
     /\ \E i \in 1..Len(slack.config.blocks) : DescriptorFails(slack.config.blocks[i]))
    => (slack.ret # "nil" /\ slack.posted = <<>>)

\* C21: EventStream.Stream returns only when its context has been cancelled:
\* while the context is live, no connection failure, exhausted retry run or
\* enrichment failure makes Stream return or the ingest goroutine die.
C21_StreamReturnsOnlyOnCancel ==
    es.pc \in {"returned", "panic"} => ctxDone

\* an inner retry run was exhausted, the stream was connected afterwards, a
\* side-call failed, and Stream is still receiving with the context live
C21_Witness ==
    /\ ~ctxDone
    /\ up.fails >= maxRetries
    /\ es.pc = "streaming"
    /\ es.sideCall = "failed to get job versions"
    /\ es.sent # <<>>

\* the route nodes of a routes list, at every nesting depth
RECURSIVE NodesOf(_)
NodesOf(routes) ==
    IF routes = <<>> THEN {}
    ELSE {Head(routes)} \cup NodesOf(Head(routes).Routes) \cup NodesOf(Tail(routes))

\* a node with neither an output nor child routes, or naming an output that
\* is not a key of outputs
BadNode(c, node) ==
    \/ node.Output = "" /\ node.Routes = <<>>
    \/ node.Output # "" /\ node.Output \notin DOMAIN c.Outputs

\* C22: LoadConfig rejects a configuration if any route node at any nesting
\* depth has neither an output nor child routes, or names an output that is
\* not a key of outputs, or if nomad.address is empty; the rejection is an
\* error and no Config value (no router is ever built from it).
C22_InvalidRoutesRejected ==
    (/\ loadErr # "none"
     /\ \/ cfg.Address = ""
        \/ \E node \in NodesOf(cfg.Routes) : BadNode(cfg, node))
    => (loadErr # "nil" /\ rpc = "rejected" /\ router = NoRouter)

\* a readable configuration with an address and outputs is rejected for a
\* bad child of a top-level route that is itself valid
C22_Witness ==
    /\ rpc = "rejected"
    /\ loadErr = "invalid configuration"
    /\ cfg.File = "ok" /\ cfg.Address # "" /\ DOMAIN cfg.Outputs # {}
    /\ \A n \in DOMAIN cfg.Outputs : cfg.Outputs[n].Type # ""
    /\ \A i \in 1..Len(cfg.Routes) :
         /\ validateRouteShallow(cfg, cfg.Routes[i]) = "nil"
         /\ cfg.Routes[i].Filter # FLong
         /\ cfg.Routes[i].Output # ""
    /\ \E i \in 1..Len(cfg.Routes) :
         \E node \in NodesOf(cfg.Routes[i].Routes) :
            BadNode(cfg, node) /\ node.Filter # FLong

\* no route among the first i of the list matches with continue = false
NoStopUpTo(nodes, i, ctx) ==
    \A s \in 1..i : ~(Matches(nodes[s], ctx) /\ ~nodes[s].shouldContinue)

\* the routes after route i are evaluated as a list of their own
SplitsAfter(nodes, i, ctx) ==
    processRoutes(nodes, ctx).outputs =
        processRoutes(SubSeq(nodes, 1, i), ctx).outputs
            \o processRoutes(SubSeq(nodes, i + 1, Len(nodes)), ctx).outputs

\* C23: a matching child with continue=false stops only the later children
\* of the same parent; the parent's later siblings are still evaluated unless
\* a route of the parent's own list matched with continue=false: the continue
\* flag of a node affects no sibling list at another level.
C23_ContinueIsLocalToSiblingList ==
    rpc = "routed" =>
      LET ctx == EvalContext(routeEv) IN
      /\ routed.outputs = processRoutes(router.routes, ctx).outputs
      /\ \A nodes \in SiblingLists(router.routes) : \A i \in 1..Len(nodes) :
           /\ NoStopUpTo(nodes, i, ctx) => SplitsAfter(nodes, i, ctx)
           /\ \A k \in 1..Len(nodes[i].children) :
                StopsAt(nodes[i].children, k, ctx) =>
                    processRoutes(nodes[i].children, ctx).outputs
                        = ResultCutAt(nodes[i].children, k, ctx)

\* a matching parent that continues has a child that matched with
\* continue=false, and the parent's next sibling still contributed its sink
C23_Witness ==
    /\ rpc = "routed"
    /\ LET ctx == EvalContext(routeEv) IN
       \E i \in 1..(Len(router.routes) - 1) :
          /\ NoStopUpTo(router.routes, i, ctx)
          /\ Matches(router.routes[i], ctx)
          /\ \E k \in 1..Len(router.routes[i].children) :
                StopsAt(router.routes[i].children, k, ctx)
          /\ Matches(router.routes[i + 1], ctx)
          /\ router.routes[i + 1].output # ""
          /\ routed.outputs # <<>>
          /\ routed.outputs[Len(routed.outputs)] = router.routes[i + 1].output
          /\ Len(routed.outputs) >= 2

\* the step is the timer case of a backoff wait (inner: back to connecting;
\* outer: back to Stream's loop head)
IsTimerStep ==
    \/ es.pc = "innerWait" /\ es'.pc = "connect"
    \/ es.pc = "outerWait" /\ es'.pc = "stream"

\* C24: the ingest backoff delay starts at 1 s, is doubled after each backoff
\* wait that follows a failure (inner and outer loop alike), capped at 60 s,
\* and lies between 1 s and 60 s in every reachable state.
C24_BackoffDoublesWithinBounds ==
    /\ [](/\ Second <= es.retryBackoff /\ es.retryBackoff <= Minute
          /\ (up.fails = 0 /\ ~ctxDone) => es.retryBackoff = Second)
    /\ [][IF IsTimerStep
          THEN es'.retryBackoff = (IF 2 * es.retryBackoff > 60 THEN 60
                                   ELSE 2 * es.retryBackoff)
          ELSE es'.retryBackoff = es.retryBackoff]_vars

\* the delay reached the cap and a further wait left it there
C24_Witness ==
    /\ es.retryBackoff = Minute
    /\ up.fails >= 8
    /\ es.pc = "innerWait"

\* C25: after a connection attempt that fully succeeded (a stream was
\* established and events were received on it), the backoff delay is back at
\* the 1 s base: the wait that follows the end of such an attempt is 1 s, not
\* the delay escalated before it.
C25_BackoffResetAfterSuccess ==
    [][(/\ es.pc \in {"streaming", "event", "send"}
        /\ es.recv = "batch"
        /\ es'.pc \in {"innerWait", "outerWait"})
       => es'.retryBackoff = Second]_vars

\* C26: one run of the inner retry loop makes at most max_retries (10)
\* connection attempts; the failure of the max_retries-th goes to the outer
\* loop without a further inner wait; the outer loop waits one backoff
\* interval and starts a new inner run with the attempt counter at 0.
C26_InnerRunBoundedThenOuterWait ==
    /\ [](/\ es.retries <= maxRetries
          /\ es.pc \in {"connect", "streaming", "event", "send", "innerWait"}
                => es.retries < maxRetries)
    /\ [][/\ (es'.retries = maxRetries /\ es.retries # maxRetries)
                => es'.pc = "outerWait"
          /\ (es.pc = "outerWait" /\ es'.pc # "outerWait")
                => es'.pc \in {"stream", "returned"}
          /\ (es.pc = "stream" /\ es'.pc # "stream")
                => \/ es'.pc = "connect" /\ es'.retries = 0
                   \/ es'.pc = "returned" /\ ctxDone]_vars

\* an inner run was exhausted and the first attempt of the next run failed:
\* the counter stands at 1 again
C26_Witness ==
    /\ ~ctxDone
    /\ up.fails = maxRetries + 1
    /\ es.pc = "innerWait"
    /\ es.retries = 1

\* C27: from any ingest state (connecting, receiving, blocked on a send to a
\* full channel, sleeping in the inner or outer backoff wait) cancelling the
\* context eventually makes Stream return, and no event is placed on the
\* channel after Stream has returned.
C27_CancelMakesStreamReturn ==
    /\ ctxDone ~> (es.pc = "returned")
    /\ [][es.pc = "returned" => (es'.pc = "returned" /\ es'.sent = es.sent)]_vars

\* the sleeps of a Send with base delay base after its first n failed
\* attempts: base, 2*base, 4*base, ...
ExpectedSleeps(base, n) ==
    [a \in 1..n |-> base * 2^(a - 1)]

\* the RetryOutput built from a retry section that sets neither max_retries
\* nor base_delay
DefaultRetryOutput ==
    createOutput(OutputCfg("stdout", TRUE, 0, ""))

\* C28: after failed attempt number a (1-based) RetryOutput.Send sleeps
\* base_delay * 2^(a-1) before it goes on to the next attempt; an unset
\* max_retries and base_delay default to 3 and 1 s (1000 ms).
C28_RetrySleepsDouble ==
    /\ \A c \in calls :
         (c.sink \in DOMAIN c.manager.outputs /\ c.manager.outputs[c.sink].retry) =>
            c.slept = ExpectedSleeps(c.manager.outputs[c.sink].baseDelay, c.fails)
    /\ \A k \in 1..Len(log) :
         IsRetryReturn(log[k]) =>
            LET base == smOutputManager.outputs[log[k].sink].baseDelay IN
            IF log[k].err = "nil"
            THEN log[k].slept = ExpectedSleeps(base, log[k].fails)
            ELSE log[k].fails >= 1 =>
                    log[k].slept = ExpectedSleeps(base, log[k].fails - 1)
    /\ DefaultRetryOutput.maxRetries = 3
    /\ DefaultRetryOutput.baseDelay = 1000

\* a Send through the RetryOutput with the defaults failed three times: it
\* slept 1 s and 2 s
C28_Witness ==
    /\ smOutputManager.outputs["a"] = DefaultRetryOutput
    /\ \E k \in 1..Len(log) :
        /\ IsRetryReturn(log[k])
        /\ log[k].fails = 3 /\ log[k].err # "nil"
        /\ log[k].slept = <<1000, 2000>>

\* the text fails to parse, or parses and fails to execute against the data
RenderingFails(text, data) ==
    \/ \E i \in 1..Len(text) : text[i] = PieceUnclosed
    \/ \E i \in 1..Len(text) : text[i] = PieceBadField

\* the rendered text: every piece replaced by what it stands for
Rendered(text, data) ==
    [i \in 1..Len(text) |->
        CASE text[i] = PieceType -> data.Type
          [] text[i] = PieceName ->
               IF "Name" \in DOMAIN data THEN data.Name ELSE "<no value>"
          [] OTHER -> text[i]]

\* C29: template rendering never returns an error; when the template text
\* fails to parse or to execute against the data the result is the original
\* template string unchanged (never a partially rendered string), otherwise
\* it is the rendered text.
C29_RenderingNeverFails ==
    tmpl.pc = "returned" =>
        /\ tmpl.err = "nil"
        /\ tmpl.out = IF RenderingFails(tmpl.text, tmpl.data)
                      THEN tmpl.text
                      ELSE Rendered(tmpl.text, tmpl.data)

\* a template whose first piece executes and whose second fails came back
\* unchanged
C29_Witness ==
    /\ tmpl.pc = "returned"
    /\ tmpl.text = <<PieceType, PieceBadField>>
    /\ tmpl.out = tmpl.text
    /\ tmpl.err = "nil"

\* the list descriptor i's range path resolves to
RangeListOf(i) ==
    LET v == getNestedValue(rng.data, SplitPath(rng.items[i].Range)) IN
      IF v.err = "nil" /\ v.value.kind = "list" THEN v.value.items ELSE <<>>

\* descriptor i carries a range that resolves to a list
RangeResolves(i) ==
    /\ isRangeItem(rng.items[i])
    /\ LET v == getNestedValue(rng.data, SplitPath(rng.items[i].Range)) IN
         v.err = "nil" /\ v.value.kind = "list"

\* the per-iteration processing of descriptor i for the element succeeded
IterationSucceeds(i, element) ==
    LET templateItem == createTemplateItem(rng.items[i])
        itemData == createItemContext(rng.data, element)
    IN IF rng.list = "blocks"
       THEN processBlock(mapBlockConfig(templateItem)).err = "nil"
       ELSE itemProcessor(rng.list, templateItem, itemData).err = "nil"

\* the condition of descriptor i holds in the context of the element
ConditionHolds(i, element) ==
    \/ rng.items[i].Condition = ""
    \/ element.isMap /\ element.m.Status = "running"

\* the items that came from descriptor i
EmittedFrom(i) ==
    SelectSeq(rng.out, LAMBDA o : o.from = i)

\* the elements of descriptor i's list to emit an item for, in list order
ElementsToEmit(i) ==
    SelectSeq(RangeListOf(i),
              LAMBDA element : IterationSucceeds(i, element) /\ ConditionHolds(i, element))

\* the items are in the order of the descriptors they came from
InDescriptorOrder ==
    \A j, k \in 1..Len(rng.out) : j < k => rng.out[j].from <= rng.out[k].from

\* C30: every descriptor carrying range: X (a top-level block, a section
\* field, a context or actions element, a select option), X resolving to a
\* list of length n, emits between 0 and n items: one per list element whose
\* per-iteration processing succeeded and whose condition held, in list
\* order, at the descriptor's position among its static siblings.
C30_RangeEmitsOnePerElement ==
    (rng.pc = "returned" /\ rng.err = "nil") =>
        /\ InDescriptorOrder
        /\ \A i \in 1..Len(rng.items) :
             RangeResolves(i) =>
                /\ Len(EmittedFrom(i)) <= Len(RangeListOf(i))
                /\ Len(EmittedFrom(i)) = Len(ElementsToEmit(i))
                /\ rng.list # "blocks" =>
                     \A k \in 1..Len(EmittedFrom(i)) :
                        EmittedFrom(i)[k].item =
                            itemProcessor(rng.list, createTemplateItem(rng.items[i]),
                                          createItemContext(rng.data, ElementsToEmit(i)[k])).item

\* what the list processors of the fields, elements and options do: one item
\* per element whose processing succeeded, whatever the condition key says
RangeItemsPerProcessedElement ==
    (rng.pc = "returned" /\ rng.list # "blocks") =>
        /\ InDescriptorOrder
        /\ \A i \in 1..Len(rng.items) :
             RangeResolves(i) =>
                LET processed == SelectSeq(RangeListOf(i),
                                           LAMBDA element : IterationSucceeds(i, element))
                IN /\ Len(EmittedFrom(i)) = Len(processed)
                   /\ Len(EmittedFrom(i)) <= Len(RangeListOf(i))
                   /\ \A k \in 1..Len(processed) :
                        EmittedFrom(i)[k].item =
                            itemProcessor(rng.list, createTemplateItem(rng.items[i]),
                                          createItemContext(rng.data, processed[k])).item

\* what ProcessBlocks does with the configured blocks: one block per
\* descriptor, whatever its range key says
BlocksOnePerDescriptor ==
    (rng.pc = "returned" /\ rng.list = "blocks" /\ rng.err = "nil") =>
        \A i \in 1..Len(rng.items) : Len(EmittedFrom(i)) = 1

\* descriptor i carries a range whose path is missing from the event data or
\* does not resolve to a list
RangeUnresolved(i) ==
    isRangeItem(rng.items[i]) /\ ~RangeResolves(i)

\* descriptor j, taken by itself against the event data, is processed without
\* an error
ProcessedAlone(j) ==
    IF rng.list = "blocks"
    THEN processBlock(mapBlockConfig(rng.items[j])).err = "nil"
    ELSE itemProcessor(rng.list, rng.items[j], rng.data).err = "nil"

\* a range descriptor with an unresolved path emitted nothing and raised no
\* error, and its static siblings were processed
UnresolvedRangeSkipped(i) ==
    /\ EmittedFrom(i) = <<>>
    /\ rng.err # "nil" =>
          \E j \in 1..Len(rng.items) : j # i /\ ~RangeUnresolved(j) /\ ~ProcessedAlone(j)
    /\ rng.err = "nil" =>
          \A j \in 1..Len(rng.items) :
             (~isRangeItem(rng.items[j]) /\ ProcessedAlone(j)) => Len(EmittedFrom(j)) = 1

\* C31: a descriptor whose range path is missing from the event data, or does
\* not resolve to a list, emits zero items and raises no error, at block
\* level as well as inside fields, elements and options, and its sibling
\* descriptors are still processed.
C31_UnresolvedRangeEmitsNothing ==
    rng.pc = "returned" =>
        \A i \in 1..Len(rng.items) : RangeUnresolved(i) => UnresolvedRangeSkipped(i)

\* what holds of the lists inside a block: the fields, elements and options
UnresolvedRangeSkippedInLists ==
    (rng.pc = "returned" /\ rng.list # "blocks") =>
        \A i \in 1..Len(rng.items) : RangeUnresolved(i) => UnresolvedRangeSkipped(i)

\* the condition has the value true in the per-iteration scope of the
\* element, where the element's fields are visible under event
TrueForElement(condition, element) ==
    CASE condition = CondRunning -> element.isMap => element.m.Status = "running"
      [] condition = CondJob -> FALSE
      [] OTHER -> TRUE

\* the elements of descriptor i's list whose condition is true, in list order
ElementsPassing(i) ==
    SelectSeq(RangeListOf(i),
              LAMBDA element : TrueForElement(rng.items[i].Condition, element))

ConditionRaises(condition, scope) ==
    \/ condition = CondInvalid
    \/ condition = CondRunning /\ "Status" \notin DOMAIN scope

\* the elements of descriptor i's list in whose scope its condition is empty
\* or raises
ElementsRaising(i) ==
    SelectSeq(RangeListOf(i),
              LAMBDA element :
                 \/ rng.items[i].Condition = ""
                 \/ ConditionRaises(rng.items[i].Condition,
                                    createItemContext(rng.data, element)))

\* the sequence without its k-th element
WithoutRoute(routes, k) ==
    SubSeq(routes, 1, k - 1) \o SubSeq(routes, k + 1, Len(routes))

SighupHandling == sig.pc \in {"load", "router", "manager", "swap"}

MainReturned == sig.pc = "returned"

SighupKeepsRunning ==
    [][(sig.pc = "wait" /\ sig'.pc = "load") \/ SighupHandling
         => /\ ctxDone' = ctxDone
            /\ chanClosed' = chanClosed
            /\ sig'.pc \in {"wait", "load", "router", "manager", "swap"}]_vars

ReturnsOnlyAfterCancel ==
    [][sig'.pc = "returned" /\ sig.pc # "returned"
         => /\ ctxDone /\ chanClosed
            /\ \/ es.pc = "returned" /\ disp.pc = "returned"
               \/ sig'.err = "timeout"]_vars

C34_ShutdownReturns ==
    /\ ctxDone ~> MainReturned
    /\ SighupKeepsRunning
    /\ ReturnsOnlyAfterCancel

\* main's wait ends whenever the process is still there to end it
ShutdownReturnsUnlessPanic == ctxDone ~> (MainReturned \/ es.pc = "panic")

\* C35: a reload changes only the router and output-manager pointers.  No
\* step of reloadConfig, successful or failed, changes the ingest state
\* (last index, backoff delay, the open stream), the event channel or the
\* dispatcher; every event sent is buffered, in flight or routed exactly once
\* and in order; and a dequeued event is routed by the router that is live
\* when Route is called for it, also when it was buffered under an older one.
ReloadLeavesIngestAndChannel ==
    [][sig' # sig => UNCHANGED <<es, up, eventChan, produced, chanClosed, ctxDone,
                                 disp, calls, nextCall, log>>]_vars

Routed == SelectSeq(log, LAMBDA entry : entry.kind = "routed")

InFlight == IF disp.pc \in {"route", "routing"} THEN <<disp.seq>> ELSE <<>>

\* the events routed, being routed and buffered: each one sent, once, in order
BufferedInOrder ==
    LET seqs == [i \in 1..Len(Routed) |-> Routed[i].seq] \o InFlight
                \o [i \in 1..Len(eventChan) |-> eventChan[i].seq] IN
    /\ seqs = [i \in 1..produced |-> i]
    /\ \A i \in 1..Len(eventChan) : eventChan[i].ev = es.sent[eventChan[i].seq]

RoutedByLiveRouter ==
    /\ [][disp.pc = "route" /\ disp'.pc = "routing" => disp'.router = smRouter]_vars
    /\ [](\A i \in 1..Len(Routed) : Routed[i].gen = Routed[i].epoch)

C35_ReloadChangesOnlyPointers ==
    /\ ReloadLeavesIngestAndChannel
    /\ []BufferedInOrder
    /\ RoutedByLiveRouter

\* a reload about to swap the pointers while the stream is open, an event is
\* buffered and an earlier one was routed by the first router
C35_Witness ==
    /\ sig.pc = "swap"
    /\ eventChan # <<>>
    /\ es.lastIndex > 0
    /\ es.pc \in {"streaming", "event", "send"}
    /\ \E i \in 1..Len(Routed) : Routed[i].gen = 1

\* route i of the list has continue = false and does not match: its filter
\* evaluates to false or raises an evaluation error
UnmatchedStop(nodes, i, ctx) ==
    ~nodes[i].shouldContinue /\ ~Matches(nodes[i], ctx)

\* route j is reached and matches: no earlier route of the list matched with
\* continue = false
ReachedMatch(nodes, j, ctx) ==
    /\ Matches(nodes[j], ctx)
    /\ \A s \in 1..(j - 1) : ~(Matches(nodes[s], ctx) /\ ~nodes[s].shouldContinue)

\* C36: a rule with continue=false whose filter does not match (false, or an
\* evaluation error) does not stop its sibling list: every later sibling that
\* matches, with no matching continue=false rule before it, still contributes
\* its sink id, and each sibling list yields what it yields without the rule.
C36_UnmatchedContinueFalseGoesOn ==
    rpc = "routed" =>
      LET ctx == EvalContext(routeEv) IN
      /\ \A i \in 1..Len(router.routes) : UnmatchedStop(router.routes, i, ctx) =>
           \A j \in (i + 1)..Len(router.routes) :
              (ReachedMatch(router.routes, j, ctx) /\ router.routes[j].output # "")
                 => \E k \in 1..Len(routed.outputs) :
                       routed.outputs[k] = router.routes[j].output
      /\ \A nodes \in SiblingLists(router.routes) : \A i \in 1..Len(nodes) :
           UnmatchedStop(nodes, i, ctx) =>
               processRoutes(nodes, ctx).outputs
                   = processRoutes(WithoutRoute(nodes, i), ctx).outputs

\* a continue=false rule whose filter is false and one whose filter raises,
\* followed by a sibling that matched and contributed
C36_Witness ==
    /\ rpc = "routed"
    /\ LET ctx == EvalContext(routeEv)
           routes == router.routes IN
       \E i \in 1..Len(routes) : \E e \in 1..Len(routes) : \E j \in 1..Len(routes) :
          /\ i < j /\ e < j
          /\ UnmatchedStop(routes, i, ctx) /\ ~Eval(routes[i].filter, ctx).err
          /\ UnmatchedStop(routes, e, ctx) /\ Eval(routes[e].filter, ctx).err
          /\ ReachedMatch(routes, j, ctx)
          /\ routes[j].output # ""
          /\ routes[j].output \notin {routes[s].output : s \in 1..(j - 1)}
          /\ routed.outputs # <<>>

\* NewServiceManager has returned a manager
ManagerReturned == sig.pc \notin {"new", "exited"}

WorkersNotStarted ==
    /\ es.pc = "notstarted"
    /\ disp.pc = "notstarted"
    /\ eventChan = <<>>
    /\ calls = {}
    /\ log = <<>>

\* C37: once NewServiceManager has returned successfully both live pointers
\* are non-nil in every state, whatever reloads succeed or fail, so the router
\* Route calls and the manager Send calls are never nil; when the initial load
\* fails no manager exists and no worker is ever started.
C37_PointersNeverNil ==
    /\ ManagerReturned =>
         /\ smRouter # NoRouter /\ smRouter.gen > 0
         /\ smOutputManager # NoManager /\ smOutputManager.gen > 0
    /\ disp.pc = "routing" => disp.router # NoRouter
    /\ \A c \in calls : c.manager # NoManager
    /\ ~ManagerReturned => WorkersNotStarted
    /\ sig.pc = "exited" => smRouter = NoRouter /\ smOutputManager = NoManager

\* a reload has failed while the service runs, and the dispatcher is inside
\* Route with the router it found
C37_Witness ==
    /\ sig.pc = "wait"
    /\ sig.err \notin {"nil", "none"}
    /\ reloads > 0
    /\ disp.pc = "routing"
    /\ disp.router = smRouter
    /\ es.lastIndex > 0

\* what C38 says of the returned Sends to a retry-wrapped sink whose
\* max_retries is one of ms: a Send that reports failure has invoked the sink,
\* and a Send returns nil exactly when its last invocation succeeded
InvokedBeforeFailure(ms) ==
    \A k \in 1..Len(log) :
       (IsRetryReturn(log[k]) /\ MaxRetriesOf(log[k].sink) \in ms) =>
          /\ log[k].err # "nil" => log[k].attempts >= 1
          /\ log[k].err = "nil" <=>
                (log[k].attempts >= 1 /\ log[k].fails = log[k].attempts - 1)

\* C38: for every retry configuration accepted at load, a negative
\* max_retries included, RetryOutput.Send invokes the wrapped sink at least
\* once before it reports failure, and returns nil if and only if its last
\* invocation of the sink returned nil.
C38_SinkInvokedBeforeFailure ==
    InvokedBeforeFailure(Int)

\* the same for the wrappers whose max_retries is at least 1
InvokedBeforeFailureWhenPositive ==
    InvokedBeforeFailure(Nat \ {0})

\* what descriptor i of the list yields against the data as handed over
YieldOf(i) ==
    LET item == rng.given.items[i] IN
    IF isRangeItem(item)
    THEN expandRangeItem(rng.list, item, item.Range, rng.given.data).results
    ELSE LET p == itemProcessor(rng.list, item, rng.given.data) IN
           IF p.err = "nil" THEN <<p.item>> ELSE <<>>

\* the per-iteration scope of an element: the outer scope with the keys of a
\* mapping element laid over it, or with the element under Item
ScopeShadowsOnlyInside(data, el) ==
    LET scope == createItemContext(data, el) IN
    /\ DOMAIN data \subseteq DOMAIN scope
    /\ el.isMap => /\ \A key \in DOMAIN el.m : scope[key] = el.m[key]
                   /\ \A key \in DOMAIN data \ DOMAIN el.m : scope[key] = data[key]
    /\ ~el.isMap => /\ scope.Item = el.m
                    /\ \A key \in DOMAIN data : scope[key] = data[key]

====
